---- MODULE Spec2Model ----
(***************************************************************************)
(* Inventory-Tracker: the inventory period service, the inventory record   *)
(* upsert, the inventory-count import and the product image ordering       *)
(* service, modelled as state machines over the rows of the external       *)
(* store (database.sql) that the handlers read and write.                  *)
(***************************************************************************)
EXTENDS Integers, Sequences, FiniteSets, TLC

VARIABLES
    periods,        \* rows of inventory_periods
    nextPeriodId,   \* identity column of inventory_periods
    records,        \* rows of inventory_records, by (product_id, period_id)
    products,       \* rows of products
    nextProductId,  \* identity column of products
    product_images, \* rows of product_images
    nextImageId,    \* identity column of product_images
    storage,        \* objects of the product-images bucket, named by the image they were uploaded for
    categories,     \* rows of categories
    nextCategoryId, \* identity column of categories
    product_categories, \* rows of product_categories
    csv,            \* what the latest request handed over as CSV: the fields of a line,
                    \* or the caller and the data rows of an import
    resp,           \* what the latest completed request answered
    reqs            \* createPeriod requests in flight (position and locals)

vars == <<periods, nextPeriodId, records, products, nextProductId,
          product_images, nextImageId, storage, categories, nextCategoryId,
          product_categories, csv, resp, reqs>>

\* the tables of the inventory service, and those of the image service
inventoryVars == <<periods, nextPeriodId, records, reqs>>
imageVars == <<product_images, nextImageId, storage>>
categoryVars == <<categories, nextCategoryId, product_categories>>

----------------------------------------------------------------------------
(* Bounds of the model *)

MaxPeriodId == 2
MaxQty == 1
MaxRows == 2
NumRequests == 2

----------------------------------------------------------------------------
(* Users, names and the catalog the inventory operations run against *)

NoUser == "anon"
Users == {"u1", "u2"}

PeriodNames == {"Q1", "Q2"}

NULL == "null"

\* new Date().toISOString().split('T')[0]
Today == "2025-10-29"

\* String.prototype.toLowerCase on the names the model uses
ToLower(s) ==
    CASE s = "Widget" -> "widget"
      [] s = "WIDGET" -> "widget"
      [] s = "Gizmo" -> "gizmo"
      [] s = "Food" -> "food"
      [] OTHER -> s

Catalog == { [id |-> 1, owner_id |-> "u1", name |-> "Widget"] }

\* the catalog's product, and an id no product has
ProductIds == {1, 2}
PeriodIds == 1..MaxPeriodId
Quantities == 0..MaxQty

Response(op, err) == [op |-> op, err |-> err]

NoResponse == Response("none", "ok")

IdleReq == [pc |-> "idle", user |-> NoUser, name |-> ""]

----------------------------------------------------------------------------
(* Inventory periods *)

ActivePeriods(ps, u) == { p \in ps : p.owner_id = u /\ p.status = "active" }

\* update({status:'closed', end_date}).eq('owner_id', u).eq('status','active')
CloseActiveNone(ps, u, day) == ps

CloseActive(ps, u, day) ==
    { IF p.owner_id = u /\ p.status = "active"
        THEN [p EXCEPT !.status = "closed", !.end_date = day]
        ELSE p : p \in ps }

\* UNIQUE (owner_id, name)
PeriodNameTaken(ps, u, n) == \E p \in ps : p.owner_id = u /\ p.name = n

NewPeriod(id, u, n) ==
    [id |-> id, owner_id |-> u, name |-> n, status |-> "active", end_date |-> NULL]

\* insert({...period, owner_id, status:'active'}) under uq_periods_owner_name:
\* the rows afterwards, and the error code ("ok" when the row went in)
InsertPeriodUpsert(ps, id, u, n) ==
    IF PeriodNameTaken(ps, u, n)
      THEN [rows |-> { IF p.owner_id = u /\ p.name = n
                         THEN [p EXCEPT !.status = "active"] ELSE p : p \in ps },
            err |-> "ok"]
      ELSE [rows |-> ps \cup {NewPeriod(id, u, n)}, err |-> "ok"]

InsertPeriod(ps, id, u, n) ==
    IF PeriodNameTaken(ps, u, n)
      THEN [rows |-> ps, err |-> "23505"]
      ELSE [rows |-> ps \cup {NewPeriod(id, u, n)}, err |-> "ok"]

\* createPeriod, one request at a time: the close step, then the insert
CreatePeriod(u, n) ==
    /\ nextPeriodId <= MaxPeriodId
    /\ LET closed == CloseActive(periods, u, Today)
           ins == InsertPeriod(closed, nextPeriodId, u, n)
       IN /\ periods' = ins.rows
          /\ nextPeriodId' = IF ins.err = "ok" THEN nextPeriodId + 1 ELSE nextPeriodId
          /\ resp' = Response("createPeriod", ins.err)
    /\ UNCHANGED <<records, reqs, products, nextProductId, imageVars, categoryVars, csv>>

ClosePeriodRowsNone(ps, u, id, day) == ps

\* update({status:'closed', end_date}).eq('id', id).eq('owner_id', u).select().single()
ClosePeriodRows(ps, u, id, day) ==
    { IF p.id = id /\ p.owner_id = u
        THEN [p EXCEPT !.status = "closed", !.end_date = day]
        ELSE p : p \in ps }

ClosePeriod(u, id) ==
    /\ IF \E p \in periods : p.id = id /\ p.owner_id = u
         THEN /\ periods' = ClosePeriodRows(periods, u, id, Today)
              /\ resp' = Response("closePeriod", "ok")
         ELSE /\ resp' = Response("closePeriod", "PGRST116")
              /\ UNCHANGED periods
    /\ UNCHANGED <<nextPeriodId, records, reqs, products, nextProductId, imageVars, categoryVars, csv>>

----------------------------------------------------------------------------
(* Inventory records.  records[<<product, period>>] lists the quantities   *)
(* of the rows that carry this pair, oldest first: the id, notes and       *)
(* counted_at columns are left out.                                        *)

\* RLS of inventory_records: the product is one of the caller's
OwnsProduct(u, pid) == \E p \in products : p.id = pid /\ p.owner_id = u

\* upsert(row, {onConflict: 'product_id,period_id'}) under uq_record_product_period
UpsertRecordInsertOnly(rs, pid, perid, q) ==
    [rs EXCEPT ![<<pid, perid>>] = Append(@, q)]

UpsertRecord(rs, pid, perid, q) ==
    [rs EXCEPT ![<<pid, perid>>] = IF @ = <<>> THEN <<q>> ELSE [i \in DOMAIN @ |-> q]]

\* the call as it would be if the period had to be active
AddInventoryRecordActiveOnly(u, perid, pid, q) ==
    /\ IF ~ \E p \in periods : p.id = perid /\ p.owner_id = u /\ p.status = "active"
         THEN /\ resp' = Response("addInventoryRecord", "NotFound")
              /\ UNCHANGED records
         ELSE IF ~ OwnsProduct(u, pid)
           THEN /\ resp' = Response("addInventoryRecord", "42501")
                /\ UNCHANGED records
           ELSE /\ records' = UpsertRecord(records, pid, perid, q)
                /\ resp' = Response("addInventoryRecord", "ok")
    /\ UNCHANGED <<periods, nextPeriodId, reqs, products, nextProductId, imageVars, categoryVars, csv>>

AddInventoryRecord(u, perid, pid, q) ==
    /\ IF ~ \E p \in periods : p.id = perid /\ p.owner_id = u
         THEN /\ resp' = Response("addInventoryRecord", "NotFound")
              /\ UNCHANGED records
         ELSE IF ~ OwnsProduct(u, pid)
           THEN /\ resp' = Response("addInventoryRecord", "42501")
                /\ UNCHANGED records
           ELSE /\ records' = UpsertRecord(records, pid, perid, q)
                /\ resp' = Response("addInventoryRecord", "ok")
    /\ UNCHANGED <<periods, nextPeriodId, reqs, products, nextProductId, imageVars, categoryVars, csv>>

\* select(...).eq('period_id').eq('product_id').single(), then
\* delete().eq('period_id').eq('product_id')
DeleteRecord(u, perid, pid) ==
    /\ IF ~ (OwnsProduct(u, pid) /\ Len(records[<<pid, perid>>]) = 1)
         THEN /\ resp' = Response("deleteRecord", "NotFound")
              /\ UNCHANGED records
         ELSE IF ~ \E p \in periods : p.id = perid /\ p.owner_id = u
           THEN /\ resp' = Response("deleteRecord", "TypeError")
                /\ UNCHANGED records
           ELSE /\ records' = [records EXCEPT ![<<pid, perid>>] = <<>>]
                /\ resp' = Response("deleteRecord", "ok")
    /\ UNCHANGED <<periods, nextPeriodId, reqs, products, nextProductId, imageVars, categoryVars, csv>>

----------------------------------------------------------------------------
(* Inventory-count import: the rows below the header, already split into  *)
(* the name and quantity columns                                           *)

CsvNames == {"WIDGET", "Nothing"}
\* parseInt of the quantity column: a negative number, or the largest count
CsvQuantities == {0 - 1, MaxQty}
CsvRow == [name : CsvNames, quantity : CsvQuantities]
CsvRows == UNION { [1..n -> CsvRow] : n \in 0..MaxRows }

\* new Map(products.map(p => [p.name.toLowerCase(), p.id])).get(name.toLowerCase())
\* (0: no entry; ids are positive)
ProductMapGet(u, name) ==
    LET hits == { p \in products : p.owner_id = u /\ ToLower(p.name) = ToLower(name) }
    IN IF hits = {} THEN 0
       ELSE LET last == CHOOSE p \in hits : \A o \in hits : o.id <= p.id IN last.id

\* the loop over dataLines: what one row contributes
RowOutcome(u, row) ==
    IF row.name = "" THEN "failed"
    ELSE IF row.quantity < 0 THEN "failed"
    ELSE IF ProductMapGet(u, row.name) = 0 THEN "notFound"
    ELSE "success"

\* recordsToUpsert, in row order
RECURSIVE RecordsToUpsert(_, _)
RecordsToUpsert(u, rows) ==
    IF rows = <<>> THEN <<>>
    ELSE LET row == Head(rows)
             rest == RecordsToUpsert(u, Tail(rows))
         IN IF RowOutcome(u, row) = "success"
              THEN <<[product_id |-> ProductMapGet(u, row.name), quantity |-> row.quantity]>> \o rest
              ELSE rest

\* one INSERT ... ON CONFLICT DO UPDATE statement may not touch a row twice
BatchHasDuplicate(batch) ==
    \E i, j \in 1..Len(batch) : i # j /\ batch[i].product_id = batch[j].product_id

RECURSIVE UpsertBatch(_, _, _)
UpsertBatch(rs, perid, batch) ==
    IF batch = <<>> THEN rs
    ELSE UpsertBatch(UpsertRecord(rs, Head(batch).product_id, perid, Head(batch).quantity),
                     perid, Tail(batch))

ImportInventory(u, rows) ==
    /\ IF Cardinality(ActivePeriods(periods, u)) # 1
           THEN /\ resp' = Response("importInventory", "NotFound")
                /\ UNCHANGED records
           ELSE LET period == CHOOSE p \in ActivePeriods(periods, u) : TRUE
                    batch == RecordsToUpsert(u, rows)
                IN IF BatchHasDuplicate(batch)
                     THEN /\ resp' = Response("importInventory", "21000")
                          /\ UNCHANGED records
                     ELSE /\ records' = UpsertBatch(records, period.id, batch)
                          /\ resp' = Response("importInventory", "ok")
    /\ UNCHANGED <<periods, nextPeriodId, reqs, products, nextProductId, imageVars, categoryVars, csv>>

----------------------------------------------------------------------------
(* The inventory service, one request at a time *)

InventoryOps ==
    {"createPeriod", "closePeriod", "addInventoryRecord", "deleteRecord", "importInventory"}

\* const { data: { user } } = await supabase.auth.getUser()
\* if (!user) throw new UnauthorizedError()      -- the first lines of every handler
Unauthenticated(op) ==
    /\ resp' = Response(op, "Unauthorized")
    /\ UNCHANGED <<inventoryVars, products, nextProductId, imageVars, categoryVars, csv>>

InitInventory ==
    /\ periods = {}
    /\ nextPeriodId = 1
    /\ records = [k \in ProductIds \X PeriodIds |-> <<>>]
    /\ products = Catalog
    /\ nextProductId = Cardinality(Catalog) + 1
    /\ product_images = {}
    /\ nextImageId = 1
    /\ storage = {}
    /\ categories = {}
    /\ nextCategoryId = 1
    /\ product_categories = {}
    /\ csv = <<>>
    /\ resp = NoResponse
    /\ reqs = [r \in 1..NumRequests |-> IdleReq]

NextInventory ==
    \/ \E u \in Users, n \in PeriodNames : CreatePeriod(u, n)
    \/ \E u \in Users, id \in PeriodIds : ClosePeriod(u, id)
    \/ \E u \in Users, perid \in PeriodIds, pid \in ProductIds, q \in Quantities :
          AddInventoryRecord(u, perid, pid, q)
    \/ \E u \in Users, perid \in PeriodIds, pid \in ProductIds : DeleteRecord(u, perid, pid)
    \/ \E u \in Users, rows \in CsvRows : ImportInventory(u, rows)
    \/ \E op \in InventoryOps : Unauthenticated(op)

SpecInventory == InitInventory /\ [][NextInventory]_vars

----------------------------------------------------------------------------
(* createPeriod requests of several clients in flight at once.  Each await *)
(* of the handler is one step: getUser, the closing update, the insert.    *)

CreatePeriodBegin(r, u, n) ==
    /\ reqs[r].pc = "idle"
    /\ IF u = NoUser
         THEN /\ resp' = Response("createPeriod", "Unauthorized")
              /\ UNCHANGED reqs
         ELSE /\ reqs' = [reqs EXCEPT ![r] = [pc |-> "close", user |-> u, name |-> n]]
              /\ UNCHANGED resp
    /\ UNCHANGED <<periods, nextPeriodId, records, products, nextProductId, imageVars, categoryVars, csv>>

CreatePeriodClose(r) ==
    /\ reqs[r].pc = "close"
    /\ periods' = CloseActive(periods, reqs[r].user, Today)
    /\ reqs' = [reqs EXCEPT ![r].pc = "insert"]
    /\ UNCHANGED <<nextPeriodId, records, resp, products, nextProductId, imageVars, categoryVars, csv>>

CreatePeriodInsert(r) ==
    /\ reqs[r].pc = "insert"
    /\ nextPeriodId <= MaxPeriodId
    /\ LET ins == InsertPeriod(periods, nextPeriodId, reqs[r].user, reqs[r].name)
       IN /\ periods' = ins.rows
          /\ nextPeriodId' = IF ins.err = "ok" THEN nextPeriodId + 1 ELSE nextPeriodId
          /\ resp' = Response("createPeriod", ins.err)
    /\ reqs' = [reqs EXCEPT ![r] = IdleReq]
    /\ UNCHANGED <<records, products, nextProductId, imageVars, categoryVars, csv>>

NextPeriodRace ==
    \/ \E r \in 1..NumRequests, u \in Users \cup {NoUser}, n \in PeriodNames :
          CreatePeriodBegin(r, u, n)
    \/ \E r \in 1..NumRequests : CreatePeriodClose(r)
    \/ \E r \in 1..NumRequests : CreatePeriodInsert(r)

SpecPeriodRace == InitInventory /\ [][NextPeriodRace]_vars

----------------------------------------------------------------------------
(* Claims about the inventory periods and records *)

OneActivePerOwner == \A u \in Users : Cardinality(ActivePeriods(periods, u)) <= 1

\* a step that inserted a period: the new row is the only active period of
\* its owner, and what was active for that owner is closed with an end_date
CreateStepClosesPrevious ==
    nextPeriodId' = nextPeriodId + 1 =>
      \E new \in periods' :
        /\ new.id = nextPeriodId
        /\ resp' = Response("createPeriod", "ok")
        /\ ActivePeriods(periods', new.owner_id) = {new}
        /\ \A p \in ActivePeriods(periods, new.owner_id) :
             \E q \in periods' : q.id = p.id /\ q.status = "closed" /\ q.end_date # NULL

\* C1: with the requests of an owner executed one at a time, at most one of
\* the owner's periods is active in every state, and right after a successful
\* createPeriod the only active period is the new one while the period that
\* was active before is closed and has an end_date.
C1_SingleActivePeriod == []OneActivePerOwner /\ [][CreateStepClosesPrevious]_vars

C1_SecondPeriodCreated ==
    /\ resp = Response("createPeriod", "ok")
    /\ \E p, q \in periods :
         /\ p.owner_id = q.owner_id
         /\ p.id < q.id
         /\ p.status = "closed" /\ p.end_date # NULL
         /\ q.status = "active"

\* C2: createPeriod is atomic: a createPeriod whose insert fails (the name is
\* taken) leaves every period of the store as it was before the call.
C2_FailedCreateLeavesPeriods ==
    [][resp' = Response("createPeriod", "23505") => periods' = periods]_vars

\* C3: also when two createPeriod requests of one owner both run their close
\* step before either inserts, the store rejects the second insert, so no
\* owner ever has two active periods.
C3_RaceKeepsOneActive ==
    \A u \in Users : \A p, q \in ActivePeriods(periods, u) : p.id = q.id

\* C4: a period that is closed stays in the store and stays closed across
\* every step of createPeriod, closePeriod, addInventoryRecord, deleteRecord
\* and the inventory-count import.
C4_ClosedStaysClosed ==
    [][\A p \in periods : p.status = "closed" =>
         \E q \in periods' : q.id = p.id /\ q.status = "closed"]_vars

C4_ClosedThenCreated ==
    /\ resp = Response("createPeriod", "ok")
    /\ \E p, q \in periods :
         /\ p.owner_id = q.owner_id /\ p.name # q.name
         /\ p.status = "closed" /\ q.status = "active"
    /\ \E k \in DOMAIN records : records[k] # <<>>

OneRecordPerPair == \A k \in DOMAIN records : Len(records[k]) <= 1

\* a successful addInventoryRecord leaves its pair with the call's quantity
AddStepStoresQuantity ==
    resp' = Response("addInventoryRecord", "ok") =>
      \A u \in Users, perid \in PeriodIds, pid \in ProductIds, q \in Quantities :
        AddInventoryRecord(u, perid, pid, q) => records'[<<pid, perid>>] = <<q>>

\* C5: whatever addInventoryRecord, import and deleteRecord calls ran, every
\* (product, period) pair has at most one record, and after an
\* addInventoryRecord for a pair that already had a record the pair's single
\* record holds the quantity of this later call.
C5_OneRecordLatestQuantity == []OneRecordPerPair /\ [][AddStepStoresQuantity]_vars

C5_RecordOverwritten ==
    /\ resp = Response("addInventoryRecord", "ok")
    /\ \E k \in DOMAIN records : records[k] = <<MaxQty>>

----------------------------------------------------------------------------
(* Product images: services/product addProductImage, addProductImageFromUrl, *)
(* deleteProductImage, reorderProductImages, and the image column of the     *)
(* product CSV import.  A row of product_images is [id, product_id,          *)
(* display_order]; an uploaded file is named in storage by the id of the row *)
(* that points at it.                                                        *)

\* if (count && count >= 10) throw new ValidationError('Maximum 10 images per product')
MaxImages == 10

MaxImageId == 3
MaxOrders == 2
MaxFiles == 1
MaxSpare == 2
MaxOver == 1
MaxImportRows == 2

ErrMaxImages == "ValidationError: Maximum 10 images per product"
ErrInvalidUrl == "ValidationError: Invalid image URL"

ImageIds == 1..MaxImageId

\* image URLs a caller may send: one the database accepts, one that new URL()
\* parses but the table's CHECK (image_url ~* '^https?://') refuses, one that
\* new URL() throws on
ImageUrls == {"https://cdn.example/a.png", "ftp://cdn.example/a.png", "not a url"}
IsUrl(s) == s # "not a url"
MatchesHttp(s) == s = "https://cdn.example/a.png"

ImagesOf(imgs, pid) == { i \in imgs : i.product_id = pid }

ImageCount(imgs, pid) == Cardinality(ImagesOf(imgs, pid))

ImageLimitExceeded(imgs, pid) == ImageCount(imgs, pid) > MaxImages

ImageLimitReached(imgs, pid) == ImageCount(imgs, pid) >= MaxImages

\* lastImage ? lastImage.display_order + 1 : 0
NextOrder(imgs, pid) ==
    IF ImagesOf(imgs, pid) = {}
      THEN 0
      ELSE LET last == CHOOSE i \in ImagesOf(imgs, pid) :
                          \A j \in ImagesOf(imgs, pid) : j.display_order <= i.display_order
           IN last.display_order + 1

\* idx_product_images_unique_order ON product_images(product_id, display_order)
OrderTaken(imgs, pid, d, self) ==
    \E i \in imgs : i.product_id = pid /\ i.display_order = d /\ i.id # self

NewImage(id, pid, d) == [id |-> id, product_id |-> pid, display_order |-> d]

\* the insert without the unique index
InsertImageAnyOrder(imgs, id, pid, url, d) ==
    IF ~MatchesHttp(url)
      THEN [rows |-> imgs, err |-> "23514"]
      ELSE [rows |-> imgs \cup {NewImage(id, pid, d)}, err |-> "ok"]

InsertImage(imgs, id, pid, url, d) ==
    IF ~MatchesHttp(url)
      THEN [rows |-> imgs, err |-> "23514"]
      ELSE IF OrderTaken(imgs, pid, d, id)
             THEN [rows |-> imgs, err |-> "23505"]
             ELSE [rows |-> imgs \cup {NewImage(id, pid, d)}, err |-> "ok"]

\* update({ display_order }).eq('id', id): the row keeps its place when the
\* unique index refuses the new one
UpdateImageOrder(imgs, id, d) ==
    IF \A i \in imgs : i.id # id
      THEN [rows |-> imgs, err |-> "ok"]
      ELSE LET row == CHOOSE i \in imgs : i.id = id
           IN IF OrderTaken(imgs, row.product_id, d, id)
                THEN [rows |-> imgs, err |-> "23505"]
                ELSE [rows |-> (imgs \ {row}) \cup {[row EXCEPT !.display_order = d]},
                      err |-> "ok"]

AddProductImage(u, pid) ==
    /\ IF ~OwnsProduct(u, pid)
         THEN /\ resp' = Response("addProductImage", "PGRST116")
              /\ UNCHANGED imageVars
         ELSE IF ImageLimitReached(product_images, pid)
                THEN /\ resp' = Response("addProductImage", ErrMaxImages)
                     /\ UNCHANGED imageVars
                ELSE LET ins == InsertImage(product_images, nextImageId, pid,
                                            "https://cdn.example/a.png",
                                            NextOrder(product_images, pid))
                     IN /\ storage' = storage \cup {nextImageId}
                        /\ product_images' = ins.rows
                        /\ nextImageId' = IF ins.err = "ok" THEN nextImageId + 1
                                                             ELSE nextImageId
                        /\ resp' = Response("addProductImage", ins.err)
    /\ UNCHANGED <<inventoryVars, products, nextProductId, categoryVars, csv>>

AddProductImageFromUrl(u, pid, url) ==
    /\ IF ~OwnsProduct(u, pid)
         THEN /\ resp' = Response("addProductImageFromUrl", "PGRST116")
              /\ UNCHANGED imageVars
         ELSE IF ~IsUrl(url)
                THEN /\ resp' = Response("addProductImageFromUrl", ErrInvalidUrl)
                     /\ UNCHANGED imageVars
                ELSE IF ImageLimitReached(product_images, pid)
                       THEN /\ resp' = Response("addProductImageFromUrl", ErrMaxImages)
                            /\ UNCHANGED imageVars
                       ELSE LET ins == InsertImage(product_images, nextImageId, pid, url,
                                                   NextOrder(product_images, pid))
                            IN /\ product_images' = ins.rows
                               /\ nextImageId' = IF ins.err = "ok" THEN nextImageId + 1
                                                                    ELSE nextImageId
                               /\ resp' = Response("addProductImageFromUrl", ins.err)
                               /\ UNCHANGED storage
    /\ UNCHANGED <<inventoryVars, products, nextProductId, categoryVars, csv>>

\* .order('display_order') of the rows selected after the delete
RECURSIVE AscendingByOrder(_)
AscendingByOrder(S) ==
    IF S = {}
      THEN <<>>
      ELSE LET first == CHOOSE i \in S : \A j \in S : i.display_order <= j.display_order
           IN <<first>> \o AscendingByOrder(S \ {first})

CompactNone(imgs, remaining) == imgs

\* for (const img of remainingImages) update({ display_order: img.display_order - 1 })
\* the result of each update is not looked at
RECURSIVE Compact(_, _)
Compact(imgs, remaining) ==
    IF remaining = <<>>
      THEN imgs
      ELSE LET img == Head(remaining)
           IN Compact(UpdateImageOrder(imgs, img.id, img.display_order - 1).rows,
                      Tail(remaining))

DeleteProductImage(u, pid, imageId) ==
    /\ IF ~OwnsProduct(u, pid) \/ (\A i \in ImagesOf(product_images, pid) : i.id # imageId)
         THEN /\ resp' = Response("deleteProductImage", "PGRST116")
              /\ UNCHANGED imageVars
         ELSE LET image == CHOOSE i \in ImagesOf(product_images, pid) : i.id = imageId
                  deleted == product_images \ {image}
                  remainingImages ==
                      AscendingByOrder({ i \in ImagesOf(deleted, pid) :
                                           i.display_order > image.display_order })
              IN /\ storage' = storage \ {imageId}
                 /\ product_images' = Compact(deleted, remainingImages)
                 /\ resp' = Response("deleteProductImage", "ok")
                 /\ UNCHANGED nextImageId
    /\ UNCHANGED <<inventoryVars, products, nextProductId, categoryVars, csv>>

\* for (const { id, display_order } of imageOrders) { update ...; if (error) throw error }
RECURSIVE ApplyOrders(_, _, _)
ApplyOrders(imgs, pid, imageOrders) ==
    IF imageOrders = <<>>
      THEN [rows |-> imgs, err |-> "ok"]
      ELSE LET o == Head(imageOrders)
               upd == IF \E i \in ImagesOf(imgs, pid) : i.id = o.id
                        THEN UpdateImageOrder(imgs, o.id, o.display_order)
                        ELSE [rows |-> imgs, err |-> "ok"]
           IN IF upd.err # "ok"
                THEN upd
                ELSE ApplyOrders(upd.rows, pid, Tail(imageOrders))

ReorderProductImages(u, pid, imageOrders) ==
    /\ IF ~OwnsProduct(u, pid)
         THEN /\ resp' = Response("reorderProductImages", "PGRST116")
              /\ UNCHANGED imageVars
         ELSE LET res == ApplyOrders(product_images, pid, imageOrders)
              IN /\ product_images' = res.rows
                 /\ resp' = Response("reorderProductImages", res.err)
                 /\ UNCHANGED <<nextImageId, storage>>
    /\ UNCHANGED <<inventoryVars, products, nextProductId, categoryVars, csv>>

\* body.orders: Array<{ id: number, display_order: number }>
ImageOrderPairs == [id : ImageIds, display_order : 0..MaxImageId]
ImageOrders == UNION { [1..n -> ImageOrderPairs] : n \in 0..MaxOrders }

ImageOps ==
    {"addProductImage", "addProductImageFromUrl", "deleteProductImage", "reorderProductImages"}

NextImages ==
    \/ \E u \in Users, pid \in ProductIds :
          /\ nextImageId <= MaxImageId
          /\ Cardinality(storage) < MaxFiles
          /\ AddProductImage(u, pid)
    \/ \E u \in Users, pid \in ProductIds, url \in ImageUrls :
          /\ nextImageId <= MaxImageId
          /\ AddProductImageFromUrl(u, pid, url)
    \/ \E u \in Users, pid \in ProductIds, imageId \in ImageIds :
          DeleteProductImage(u, pid, imageId)
    \/ \E u \in Users, pid \in ProductIds, imageOrders \in ImageOrders :
          ReorderProductImages(u, pid, imageOrders)
    \/ \E op \in ImageOps : Unauthenticated(op)

SpecImages == InitInventory /\ [][NextImages]_vars

\* the same service without the reorder endpoint
NextImageDelete ==
    \/ \E u \in Users, pid \in ProductIds :
          /\ nextImageId <= MaxImageId
          /\ Cardinality(storage) < MaxFiles
          /\ AddProductImage(u, pid)
    \/ \E u \in Users, pid \in ProductIds, url \in ImageUrls :
          /\ nextImageId <= MaxImageId
          /\ AddProductImageFromUrl(u, pid, url)
    \/ \E u \in Users, pid \in ProductIds, imageId \in ImageIds :
          DeleteProductImage(u, pid, imageId)
    \/ \E op \in ImageOps \ {"reorderProductImages"} : Unauthenticated(op)

SpecImageDelete == InitInventory /\ [][NextImageDelete]_vars

----------------------------------------------------------------------------
(* parseCSVLine, and the writer of the export routes.  A string is the     *)
(* sequence of its characters.                                             *)

MaxFieldLen == 2
MaxFields == 2

Quote == "\""
Comma == ","
CsvChars == {"a", Comma, Quote}

\* the loop of parseCSVLine from position i on, without its branch for an
\* escaped quote
RECURSIVE ParseFromNoEscape(_, _, _, _, _)
ParseFromNoEscape(line, i, result, current, inQuotes) ==
    IF i > Len(line)
      THEN Append(result, current)
      ELSE IF line[i] = Quote
             THEN ParseFromNoEscape(line, i + 1, result, current, ~inQuotes)
             ELSE IF line[i] = Comma /\ ~inQuotes
                    THEN ParseFromNoEscape(line, i + 1, Append(result, current), <<>>, inQuotes)
                    ELSE ParseFromNoEscape(line, i + 1, result, Append(current, line[i]),
                                           inQuotes)

ParseCSVLineNoEscape(line) == ParseFromNoEscape(line, 1, <<>>, <<>>, FALSE)

\* while (i < line.length) { ... i++ }; result.push(current)
RECURSIVE ParseFrom(_, _, _, _, _)
ParseFrom(line, i, result, current, inQuotes) ==
    IF i > Len(line)
      THEN Append(result, current)
      ELSE LET char == line[i]
               nextIsQuote == i + 1 <= Len(line) /\ line[i + 1] = Quote
           IN IF char = Quote
                THEN IF inQuotes /\ nextIsQuote
                       THEN ParseFrom(line, i + 2, result, Append(current, Quote), inQuotes)
                       ELSE ParseFrom(line, i + 1, result, current, ~inQuotes)
                ELSE IF char = Comma /\ ~inQuotes
                       THEN ParseFrom(line, i + 1, Append(result, current), <<>>, inQuotes)
                       ELSE ParseFrom(line, i + 1, result, Append(current, char), inQuotes)

ParseCSVLine(line) == ParseFrom(line, 1, <<>>, <<>>, FALSE)

\* product.name.replace(/"/g, '""')
RECURSIVE EscapeQuotes(_)
EscapeQuotes(s) ==
    IF s = <<>>
      THEN <<>>
      ELSE (IF Head(s) = Quote THEN <<Quote, Quote>> ELSE <<Head(s)>>) \o EscapeQuotes(Tail(s))

\* `"${escapedName}"`
QuoteField(s) == <<Quote>> \o EscapeQuotes(s) \o <<Quote>>

\* the fields of a row joined with commas
RECURSIVE WriteCSVLine(_)
WriteCSVLine(fields) ==
    IF fields = <<>>
      THEN <<>>
      ELSE IF Len(fields) = 1
             THEN QuoteField(fields[1])
             ELSE QuoteField(Head(fields)) \o <<Comma>> \o WriteCSVLine(Tail(fields))

\* field values without line breaks: every string up to MaxFieldLen, and a"b
CsvFieldValues ==
    UNION { [1..n -> CsvChars] : n \in 0..MaxFieldLen } \cup { <<"a", Quote, "b">> }
CsvFieldSeqs == UNION { [1..n -> CsvFieldValues] : n \in 0..MaxFields }

InitCsv ==
    /\ periods = {}
    /\ nextPeriodId = 1
    /\ records = [k \in ProductIds \X PeriodIds |-> <<>>]
    /\ products = Catalog
    /\ nextProductId = Cardinality(Catalog) + 1
    /\ product_images = {}
    /\ nextImageId = 1
    /\ storage = {}
    /\ categories = {}
    /\ nextCategoryId = 1
    /\ product_categories = {}
    /\ csv \in CsvFieldSeqs
    /\ resp = NoResponse
    /\ reqs = [r \in 1..NumRequests |-> IdleReq]

\* write the fields as one line, then parse the line
WriteThenParse ==
    /\ resp' = [op |-> "parseCSVLine", err |-> "ok",
                fields |-> ParseCSVLine(WriteCSVLine(csv))]
    /\ UNCHANGED <<inventoryVars, products, nextProductId, imageVars, categoryVars, csv>>

NextCsv == WriteThenParse

SpecCsv == InitCsv /\ [][NextCsv]_vars

----------------------------------------------------------------------------
(* Products and their categories: services/product createProduct,          *)
(* updateProduct, getProductById, getAllProducts; services/category        *)
(* createCategory, deleteCategory.  A row of categories is [id, owner_id,  *)
(* name]; a row of product_categories is [product_id, category_id].        *)

MaxProductId == 3
MaxCategoryId == 2
MaxPage == 2
MaxLimit == 2

ErrCategories == "ValidationError: One or more categories not found or unauthorized"

CategoryNames == {"Food", "food"}
NewProductName == "Gizmo"
\* the user whose createProduct requests are followed; both users keep categories
Creators == {"u1"}
CategoryIds == 1..MaxCategoryId
AllProductIds == 1..MaxProductId
\* where categories are followed, one product is created next to the catalog's
LastLinkedProductId == Cardinality(Catalog) + 1

\* categoryIds of a request body, t.Optional(t.Array(t.Number())): the lists
\* without repetition, and the lists that name one category twice
CategoryIdLists ==
    { l \in UNION { [1..n -> CategoryIds] : n \in 0..MaxCategoryId } :
        Cardinality({ l[k] : k \in DOMAIN l }) = Len(l) }
    \cup { <<c, c>> : c \in CategoryIds }

Range(f) == { f[k] : k \in DOMAIN f }

\* uq_categories_owner_name UNIQUE (owner_id, name)
InsertCategory(cats, id, u, n) ==
    IF \E c \in cats : c.owner_id = u /\ c.name = n
      THEN [rows |-> cats, err |-> "23505"]
      ELSE [rows |-> cats \cup {[id |-> id, owner_id |-> u, name |-> n]}, err |-> "ok"]

CreateCategory(u, n) ==
    /\ LET ins == InsertCategory(categories, nextCategoryId, u, n)
       IN /\ categories' = ins.rows
          /\ nextCategoryId' = IF ins.err = "ok" THEN nextCategoryId + 1 ELSE nextCategoryId
          /\ resp' = Response("createCategory", ins.err)
    /\ UNCHANGED <<inventoryVars, products, nextProductId, imageVars, product_categories,
                   csv>>

\* delete().eq("id", id) under "Delete own categories"; the links of the
\* category go with it (ON DELETE CASCADE)
DeleteCategoryRows(cats, u, id) == { c \in cats : ~(c.id = id /\ c.owner_id = u) }

DeleteCategory(u, id) ==
    /\ categories' = DeleteCategoryRows(categories, u, id)
    /\ product_categories' =
           { l \in product_categories :
               \E c \in categories' : c.id = l.category_id }
    /\ resp' = Response("deleteCategory", "ok")
    /\ UNCHANGED <<inventoryVars, products, nextProductId, imageVars, nextCategoryId,
                   csv>>

\* select("id").in("id", categoryIds), without the filter on the owner
ExistingCategories(cats, u, ids) == { c \in cats : c.id \in Range(ids) }

\* select("id").in("id", categoryIds).eq("owner_id", user.id)
OwnedCategories(cats, u, ids) == { c \in cats : c.id \in Range(ids) /\ c.owner_id = u }

\* ownedCategories.length !== categoryIds.length
CategoriesRefused(cats, u, ids) == Cardinality(OwnedCategories(cats, u, ids)) # Len(ids)

\* insert(links) into product_categories: policy "Insert own product-category
\* links", then PRIMARY KEY (product_id, category_id); all rows or none
InsertLinks(links, ps, cats, u, pid, ids) ==
    IF \/ ~(\E p \in ps : p.id = pid /\ p.owner_id = u)
       \/ \E k \in DOMAIN ids : ~(\E c \in cats : c.id = ids[k] /\ c.owner_id = u)
      THEN [rows |-> links, err |-> "42501"]
      ELSE IF \/ Cardinality(Range(ids)) # Len(ids)
              \/ \E k \in DOMAIN ids : [product_id |-> pid, category_id |-> ids[k]] \in links
             THEN [rows |-> links, err |-> "23505"]
             ELSE [rows |-> links \cup
                       { [product_id |-> pid, category_id |-> ids[k]] : k \in DOMAIN ids },
                   err |-> "ok"]

\* mapProduct: p.product_categories?.map((pc) => pc.category.id)
CategoryIdsOf(links, pid) == { l.category_id : l \in { x \in links : x.product_id = pid } }

\* delete().eq("product_id", id) under "Delete own product-category links"
DeleteLinksKept(links, ps, u, pid) == links

DeleteLinks(links, ps, u, pid) ==
    IF \E p \in ps : p.id = pid /\ p.owner_id = u
      THEN { l \in links : l.product_id # pid }
      ELSE links

CompensateNone(ps, pid) == ps

\* await supabase.from("products").delete().eq("id", inserted.id)
CompensateDelete(ps, pid) == { p \in ps : p.id # pid }

ProductResponse(op, links, pid) ==
    [op |-> op, err |-> "ok", id |-> pid, categoryIds |-> CategoryIdsOf(links, pid)]

CreateProduct(u, n, priceOk, categoryIds) ==
    /\ IF Len(categoryIds) > 0 /\ CategoriesRefused(categories, u, categoryIds)
         THEN /\ resp' = Response("createProduct", ErrCategories)
              /\ UNCHANGED <<products, nextProductId, product_categories>>
         ELSE IF ~priceOk
                THEN /\ resp' = Response("createProduct", "22003")
                     /\ UNCHANGED <<products, nextProductId, product_categories>>
                ELSE LET inserted == [id |-> nextProductId, owner_id |-> u, name |-> n]
                         withProduct == products \cup {inserted}
                         lk == IF Len(categoryIds) > 0
                                 THEN InsertLinks(product_categories, withProduct, categories,
                                                  u, inserted.id, categoryIds)
                                 ELSE [rows |-> product_categories, err |-> "ok"]
                     IN /\ nextProductId' = nextProductId + 1
                        /\ product_categories' = lk.rows
                        /\ IF lk.err # "ok"
                             THEN /\ products' = CompensateDelete(withProduct, inserted.id)
                                  /\ resp' = Response("createProduct", lk.err)
                             ELSE /\ products' = withProduct
                                  /\ resp' = ProductResponse("createProduct", lk.rows,
                                                             inserted.id)
    /\ UNCHANGED <<inventoryVars, imageVars, categories, nextCategoryId, csv>>

\* the name an update writes
UpdatedProductName == "Widget"

\* update(productData).eq("id", id) under "Update own products"
UpdateFields(ps, u, id) ==
    { IF p.id = id /\ p.owner_id = u THEN [p EXCEPT !.name = UpdatedProductName] ELSE p :
        p \in ps }

\* body of updateProduct: hasData says whether a field other than categoryIds
\* is present (the name, then), given whether categoryIds is
UpdateProduct(u, id, hasData, given, categoryIds) ==
    /\ LET visible == \E p \in products : p.id = id /\ p.owner_id = u
           cleared == DeleteLinks(product_categories, products, u, id)
           lk == IF Len(categoryIds) > 0
                   THEN InsertLinks(cleared, products, categories, u, id, categoryIds)
                   ELSE [rows |-> cleared, err |-> "ok"]
       IN IF hasData /\ ~visible
            THEN /\ resp' = Response("updateProduct", "PGRST116")
                 /\ UNCHANGED <<products, product_categories>>
            ELSE /\ products' = IF hasData THEN UpdateFields(products, u, id) ELSE products
                 /\ IF ~given
                      THEN /\ resp' = IF visible
                                        THEN ProductResponse("updateProduct",
                                                             product_categories, id)
                                        ELSE Response("updateProduct", "PGRST116")
                           /\ UNCHANGED product_categories
                      ELSE IF /\ Len(categoryIds) > 0
                              /\ CategoriesRefused(categories, u, categoryIds)
                             THEN /\ resp' = Response("updateProduct", ErrCategories)
                                  /\ UNCHANGED product_categories
                             ELSE /\ product_categories' = lk.rows
                                  /\ resp' = IF lk.err # "ok"
                                               THEN Response("updateProduct", lk.err)
                                               ELSE IF visible
                                                      THEN ProductResponse("updateProduct",
                                                                           lk.rows, id)
                                                      ELSE Response("updateProduct",
                                                                    "PGRST116")
    /\ UNCHANGED <<inventoryVars, nextProductId, imageVars, categories, nextCategoryId, csv>>

\* { page = 1, limit = 20 }; if (limit > 100) limit = 100
DefaultLimit == 20
MaxServiceLimit == 100

Pages == 0..MaxPage
Limits == (0..MaxLimit) \cup {MaxServiceLimit + 1}

Floor(a, b) == a \div b

\* Math.ceil(total / limit)
Ceil(a, b) == IF a % b = 0 THEN a \div b ELSE (a \div b) + 1

\* .order('id')
RECURSIVE AscendingById(_)
AscendingById(S) ==
    IF S = {}
      THEN <<>>
      ELSE LET first == CHOOSE p \in S : \A q \in S : p.id <= q.id
           IN <<first.id>> \o AscendingById(S \ {first})

\* .range(from, to): the rows at offsets from..to, both included
RangeOf(rows, from, to) ==
    LET last == IF to + 1 < Len(rows) THEN to + 1 ELSE Len(rows)
    IN IF last <= from THEN <<>> ELSE [k \in 1..(last - from) |-> rows[from + k]]

\* policy "Read own products"
VisibleProducts(ps, u) == { p \in ps : p.owner_id = u }

GetAllProducts(u, pageParam, limitParam) ==
    /\ LET page == IF pageParam < 1 THEN 1 ELSE pageParam
           limit == IF limitParam < 1 THEN DefaultLimit
                    ELSE IF limitParam > MaxServiceLimit THEN MaxServiceLimit
                    ELSE limitParam
           from == (page - 1) * limit
           to == from + limit - 1
           total == Cardinality(VisibleProducts(products, u))
           totalPages == Ceil(total, limit)
       IN resp' = [op |-> "getAllProducts", err |-> "ok",
                   data |-> RangeOf(AscendingById(VisibleProducts(products, u)), from, to),
                   pagination |-> [page |-> page, limit |-> limit, total |-> total,
                                   totalPages |-> totalPages,
                                   hasNextPage |-> page < totalPages,
                                   hasPrevPage |-> page > 1]]
    /\ UNCHANGED <<inventoryVars, products, nextProductId, imageVars, categoryVars, csv>>

ProductOps ==
    {"createCategory", "createProduct", "updateProduct"}

\* products with categories
NextProducts ==
    \/ \E u \in Users, n \in CategoryNames :
          /\ nextCategoryId <= MaxCategoryId
          /\ CreateCategory(u, n)
    \/ \E u \in Creators, priceOk \in BOOLEAN, categoryIds \in CategoryIdLists :
          /\ nextProductId <= LastLinkedProductId
          /\ CreateProduct(u, NewProductName, priceOk, categoryIds)
    \/ \E u \in Users, id \in 1..LastLinkedProductId, hasData \in BOOLEAN, given \in BOOLEAN,
          categoryIds \in CategoryIdLists :
          /\ given \/ categoryIds = <<>>
          /\ UpdateProduct(u, id, hasData, given, categoryIds)
    \/ \E op \in ProductOps : Unauthenticated(op)

SpecProducts == InitInventory /\ [][NextProducts]_vars

\* the catalog and its pages
NextCatalog ==
    \/ \E u \in Users, priceOk \in BOOLEAN :
          /\ nextProductId <= MaxProductId
          /\ CreateProduct(u, NewProductName, priceOk, <<>>)
    \/ \E u \in Users \cup {NoUser}, page \in Pages, limit \in Limits :
          GetAllProducts(u, page, limit)
    \/ Unauthenticated("createProduct")

SpecCatalog == InitInventory /\ [][NextCatalog]_vars

----------------------------------------------------------------------------
(* createProduct requests in flight while categories are created and       *)
(* deleted.  Each statement the handler awaits is one step: the ownership  *)
(* query, the product insert, the link insert, the compensating delete.    *)

ProductReq(pc, u, categoryIds, inserted, err) ==
    [pc |-> pc, user |-> u, name |-> NewProductName, categoryIds |-> categoryIds,
     inserted |-> inserted, err |-> err]

CreateProductBegin(r, u, categoryIds) ==
    /\ reqs[r].pc = "idle"
    /\ IF Len(categoryIds) > 0 /\ CategoriesRefused(categories, u, categoryIds)
         THEN /\ resp' = Response("createProduct", ErrCategories)
              /\ UNCHANGED reqs
         ELSE /\ reqs' = [reqs EXCEPT ![r] = ProductReq("insertProduct", u, categoryIds, 0, "ok")]
              /\ UNCHANGED resp
    /\ UNCHANGED <<periods, nextPeriodId, records, products, nextProductId, imageVars,
                   categoryVars, csv>>

CreateProductInsert(r) ==
    /\ reqs[r].pc = "insertProduct"
    /\ nextProductId <= LastLinkedProductId
    /\ products' = products \cup
           {[id |-> nextProductId, owner_id |-> reqs[r].user, name |-> reqs[r].name]}
    /\ nextProductId' = nextProductId + 1
    /\ IF Len(reqs[r].categoryIds) > 0
         THEN /\ reqs' = [reqs EXCEPT ![r].pc = "insertLinks", ![r].inserted = nextProductId]
              /\ UNCHANGED resp
         ELSE /\ reqs' = [reqs EXCEPT ![r] = IdleReq]
              /\ resp' = ProductResponse("createProduct", product_categories, nextProductId)
    /\ UNCHANGED <<periods, nextPeriodId, records, imageVars, categoryVars, csv>>

CreateProductLink(r) ==
    /\ reqs[r].pc = "insertLinks"
    /\ LET lk == InsertLinks(product_categories, products, categories, reqs[r].user,
                             reqs[r].inserted, reqs[r].categoryIds)
       IN /\ product_categories' = lk.rows
          /\ IF lk.err # "ok"
               THEN /\ reqs' = [reqs EXCEPT ![r].pc = "compensate", ![r].err = lk.err]
                    /\ UNCHANGED resp
               ELSE /\ reqs' = [reqs EXCEPT ![r] = IdleReq]
                    /\ resp' = ProductResponse("createProduct", lk.rows, reqs[r].inserted)
    /\ UNCHANGED <<periods, nextPeriodId, records, products, nextProductId, imageVars,
                   categories, nextCategoryId, csv>>

CreateProductCompensate(r) ==
    /\ reqs[r].pc = "compensate"
    /\ products' = CompensateDelete(products, reqs[r].inserted)
    /\ resp' = Response("createProduct", reqs[r].err)
    /\ reqs' = [reqs EXCEPT ![r] = IdleReq]
    /\ UNCHANGED <<periods, nextPeriodId, records, nextProductId, imageVars, categoryVars,
                   csv>>

NextProductRace ==
    \/ \E u \in Creators, categoryIds \in CategoryIdLists : CreateProductBegin(1, u, categoryIds)
    \/ CreateProductInsert(1)
    \/ CreateProductLink(1)
    \/ CreateProductCompensate(1)
    \/ \E u \in Users, n \in CategoryNames :
          /\ nextCategoryId <= MaxCategoryId
          /\ CreateCategory(u, n)
    \/ \E u \in Users, id \in CategoryIds : DeleteCategory(u, id)

SpecProductRace == InitInventory /\ [][NextProductRace]_vars

----------------------------------------------------------------------------
(* Claims about products, categories and pages *)

SomeUnowned(cats, u, ids) ==
    \E k \in DOMAIN ids : ~(\E c \in cats : c.id = ids[k] /\ c.owner_id = u)

CreateStepRefusesUnowned ==
    resp'.op = "createProduct" =>
        \A u \in Users, priceOk \in BOOLEAN, categoryIds \in CategoryIdLists :
            (/\ SomeUnowned(categories, u, categoryIds)
             /\ CreateProduct(u, NewProductName, priceOk, categoryIds)) =>
                /\ resp' = Response("createProduct", ErrCategories)
                /\ products' = products
                /\ product_categories' = product_categories

\* C11: createProduct with a categoryIds list in which any id is missing or
\* not owned by the caller fails with a validation error and writes no
\* product row and no link row.
C11_UnownedCategoriesRefused == [][CreateStepRefusesUnowned]_vars

C11_CategoryOfAnotherOwner ==
    /\ resp = Response("createProduct", ErrCategories)
    /\ categories # {}
    /\ products = Catalog
    /\ product_categories = {}

\* a step that ends a createProduct request with an error leaves no product
\* row of that request and adds none
FailedCreateLeavesNoProduct ==
    \A r \in 1..NumRequests :
        (/\ reqs[r].pc \in {"insertProduct", "insertLinks", "compensate"}
         /\ reqs'[r].pc = "idle"
         /\ resp'.err # "ok") =>
            /\ \A p \in products' : p.id # reqs[r].inserted
            /\ products' \subseteq products

\* C12: if createProduct has inserted the product row and the insertion of
\* its category links then fails, the just-created product row is deleted
\* before the error is surfaced: when the request ends with the error, the
\* products are those of before the call.
C12_FailedLinksDeleteProduct == [][FailedCreateLeavesNoProduct]_vars

C12_ProductCompensated ==
    /\ resp = Response("createProduct", "42501")
    /\ nextProductId > Cardinality(Catalog) + 1
    /\ products = Catalog
    /\ \A r \in 1..NumRequests : reqs[r].pc = "idle"

StepReplacesLinks ==
    /\ (resp'.op = "createProduct" /\ resp'.err = "ok") =>
          \A u \in Creators, categoryIds \in CategoryIdLists :
            (\E priceOk \in BOOLEAN :
                CreateProduct(u, NewProductName, priceOk, categoryIds)) =>
               /\ resp'.categoryIds = Range(categoryIds)
               /\ CategoryIdsOf(product_categories', resp'.id) = Range(categoryIds)
    /\ (resp'.op = "updateProduct" /\ resp'.err = "ok") =>
          \A u \in Users, categoryIds \in CategoryIdLists, id \in 1..LastLinkedProductId :
            (/\ resp'.id = id
             /\ \E hasData \in BOOLEAN : UpdateProduct(u, id, hasData, TRUE, categoryIds)) =>
               /\ resp'.categoryIds = Range(categoryIds)
               /\ CategoryIdsOf(product_categories', id) = Range(categoryIds)

\* C13: after a successful createProduct or updateProduct that supplies a
\* categoryIds list S, getProductById returns categoryIds whose set equals S:
\* the previous links of the product are fully replaced, and updateProduct
\* with an empty list leaves the product with no links.
C13_CategoryIdsEqualInput == [][StepReplacesLinks]_vars

C13_LinksReplaced ==
    /\ resp.op = "updateProduct"
    /\ resp.err = "ok"
    /\ resp.categoryIds = {2}
    /\ CategoryIdsOf(product_categories, resp.id) = {2}

\* the page the claim describes, for a catalog of the caller's products
Position(ps, p) == Cardinality({ q \in ps : q.id <= p.id })

ExpectedPage(ps, page, limit) ==
    LET N == Cardinality(ps)
        first == (page - 1) * limit + 1
        last == IF page * limit < N THEN page * limit ELSE N
        pages == CHOOSE t \in 0..N : t * limit >= N /\ \A x \in 0..N : x * limit >= N => t <= x
    IN [data |-> [k \in 1..(IF last < first THEN 0 ELSE last - first + 1) |->
                    (CHOOSE p \in ps : Position(ps, p) = first + k - 1).id],
        pagination |-> [page |-> page, limit |-> limit, total |-> N, totalPages |-> pages,
                        hasNextPage |-> page < pages, hasPrevPage |-> page > 1]]

PageStepAsDescribed ==
    resp'.op = "getAllProducts" =>
        \A u \in Users, page \in Pages, limit \in Limits :
            (/\ page >= 1
             /\ limit >= 1
             /\ limit <= MaxServiceLimit
             /\ GetAllProducts(u, page, limit)) =>
                LET expected == ExpectedPage(VisibleProducts(products, u), page, limit)
                IN /\ resp'.data = expected.data
                   /\ resp'.pagination = expected.pagination

\* C14: for a catalog of N products visible to the caller, every page p >= 1
\* and limit l in 1..100, getAllProducts returns the products at positions
\* (p-1)*l+1 .. min(p*l, N) in ascending id order, with total = N,
\* totalPages = ceil(N/l), hasNextPage = (p < totalPages) and hasPrevPage =
\* (p > 1); for N = 2, p = 2, l = 1 this is the second product with
\* hasNextPage false and hasPrevPage true.
C14_PagesAsDescribed == [][PageStepAsDescribed]_vars

C14_SecondPageOfTwo ==
    /\ resp.op = "getAllProducts"
    /\ VisibleProducts(products, "u1") =
           Catalog \cup {[id |-> 2, owner_id |-> "u1", name |-> NewProductName]}
    /\ resp.data = <<2>>
    /\ resp.pagination = [page |-> 2, limit |-> 1, total |-> 2, totalPages |-> 2,
                          hasNextPage |-> FALSE, hasPrevPage |-> TRUE]

----------------------------------------------------------------------------
(* POST /products/import: every data row creates a product and, when the   *)
(* images column is filled, its image rows in one insert.  A row here is   *)
(* its name, whether quantity and price parse, the names of its categories *)
(* column and the number of (http) URLs in its images column.              *)

ErrEmptyCsv == "ValidationError: CSV file is empty or has no data rows"

\* values[nameIdx]?.trim()
TrimName(s) == IF s = " Gizmo " THEN "Gizmo" ELSE s

CsvProductNames == {"WIDGET", "Gizmo", " Gizmo ", ""}
CsvCategoryLists == {<<>>, <<"Food">>, <<"Food", "food">>}
CsvImageCounts == {0, 1, MaxImages - 1, MaxImages, MaxImages + MaxOver}

\* a data row: its name column, whether its quantity and price columns pass
\* the checks, the names of its categories column, the number of URLs of its
\* images column
ImportRow ==
    [name : CsvProductNames, valid : BOOLEAN, categories : CsvCategoryLists,
     images : CsvImageCounts]

\* new Set(existingProducts?.map(p => p.name.toLowerCase()) || [])
ExistingNames(ps, u) == { ToLower(p.name) : p \in { q \in ps : q.owner_id = u } }

AddExistingNameNone(names, n) == names

\* existingNames.add(name.toLowerCase())
AddExistingName(names, n) == names \cup {ToLower(n)}

RestAborted(rows) == <<>>

\* the rows the loop still takes up after a row
RestOfRows(rows) == Tail(rows)

\* imageUrls.map((url, index) => ({ product_id, image_url: url, display_order: index }))
ImageInserts(pid, firstId, n) == { NewImage(firstId + k, pid, k) : k \in 0..(n - 1) }

\* the category of a name: from the cache, else the caller's row with exactly
\* that name, else a new row; then cached under the lower-cased name
ResolveCategory(st, u, n) ==
    IF \E e \in st.categoryCache : e.key = ToLower(n)
      THEN [st EXCEPT !.categoryId = (CHOOSE e \in st.categoryCache : e.key = ToLower(n)).id]
      ELSE IF \E c \in st.categories : c.owner_id = u /\ c.name = n
             THEN LET c == CHOOSE c \in st.categories : c.owner_id = u /\ c.name = n
                  IN [st EXCEPT !.categoryId = c.id,
                                !.categoryCache = @ \cup {[key |-> ToLower(n), id |-> c.id]}]
             ELSE [st EXCEPT !.categories =
                                 InsertCategory(@, st.nextCategoryId, u, n).rows,
                             !.nextCategoryId = @ + 1,
                             !.categoryId = st.nextCategoryId,
                             !.categoryCache =
                                 @ \cup {[key |-> ToLower(n), id |-> st.nextCategoryId]}]

\* for (const categoryName of categoryNames): resolve, then link; a link that
\* exists already (23505) is passed over
RECURSIVE LinkCategories(_, _, _, _)
LinkCategories(st, u, pid, names) ==
    IF names = <<>>
      THEN st
      ELSE LET res == ResolveCategory(st, u, Head(names))
               lk == InsertLinks(res.product_categories, res.products, res.categories, u,
                                 pid, <<res.categoryId>>)
           IN LinkCategories([res EXCEPT !.product_categories = lk.rows], u, pid, Tail(names))

ImportRowOutcome(st, row) ==
    IF TrimName(row.name) = ""
      THEN "failed"
      ELSE IF ToLower(TrimName(row.name)) \in st.existingNames
             THEN "skipped"
             ELSE IF ~row.valid THEN "failed" ELSE "success"

\* one turn of the row loop
ImportRowStep(st, u, row) ==
    LET outcome == ImportRowOutcome(st, row)
        pid == st.nextProductId
        created == [st EXCEPT
                      !.products = @ \cup {[id |-> pid, owner_id |-> u,
                                            name |-> TrimName(row.name)]},
                      !.nextProductId = @ + 1,
                      !.existingNames = AddExistingName(@, TrimName(row.name))]
        linked == LinkCategories(created, u, pid, row.categories)
    IN CASE outcome = "failed" -> [st EXCEPT !.failed = @ + 1]
         [] outcome = "skipped" -> [st EXCEPT !.skipped = @ + 1]
         [] OTHER -> [linked EXCEPT
                        !.product_images = @ \cup ImageInserts(pid, st.nextImageId, row.images),
                        !.nextImageId = @ + row.images,
                        !.success = @ + 1]

RECURSIVE ImportProductRows(_, _, _)
ImportProductRows(st, u, rows) ==
    IF rows = <<>>
      THEN st
      ELSE ImportProductRows(ImportRowStep(st, u, Head(rows)), u, RestOfRows(rows))

ImportProducts(u, rows) ==
    /\ IF rows = <<>>
         THEN /\ resp' = Response("importProducts", ErrEmptyCsv)
              /\ UNCHANGED <<products, nextProductId, product_images, nextImageId,
                             categoryVars>>
         ELSE LET st == ImportProductRows(
                            [products |-> products, nextProductId |-> nextProductId,
                             existingNames |-> ExistingNames(products, u),
                             product_images |-> product_images,
                             nextImageId |-> nextImageId,
                             categories |-> categories,
                             nextCategoryId |-> nextCategoryId,
                             product_categories |-> product_categories,
                             categoryCache |-> {}, categoryId |-> 0,
                             success |-> 0, failed |-> 0, skipped |-> 0], u, rows)
              IN /\ products' = st.products
                 /\ nextProductId' = st.nextProductId
                 /\ product_images' = st.product_images
                 /\ nextImageId' = st.nextImageId
                 /\ categories' = st.categories
                 /\ nextCategoryId' = st.nextCategoryId
                 /\ product_categories' = st.product_categories
                 /\ resp' = [op |-> "importProducts", err |-> "ok",
                             success |-> st.success, failed |-> st.failed,
                             skipped |-> st.skipped,
                             total |-> st.success + st.failed + st.skipped]
    /\ UNCHANGED <<inventoryVars, storage, csv>>

\* the rows followed where the number of images matters: one data row at most
CapImportRows ==
    {<<>>} \cup { <<row>> : row \in { r \in ImportRow : r.name \in {"WIDGET", "Gizmo"}
                                                      /\ r.categories = <<>> } }

\* the products an import can create
ImportedIds == {Cardinality(Catalog) + 1}
Importers == {"u1"}

NextImageCap ==
    \/ \E u \in Users, pid \in ImportedIds :
          /\ nextImageId <= MaxImages + MaxOver + MaxSpare
          /\ Cardinality(storage) < MaxFiles
          /\ AddProductImage(u, pid)
    \/ \E u \in Users, pid \in ImportedIds, url \in ImageUrls :
          /\ nextImageId <= MaxImages + MaxOver + MaxSpare
          /\ AddProductImageFromUrl(u, pid, url)
    \/ \E u \in Importers, rows \in CapImportRows : ImportProducts(u, rows)
    \/ \E op \in {"addProductImage", "addProductImageFromUrl", "importProducts"} :
          Unauthenticated(op)

SpecImageCap == InitInventory /\ [][NextImageCap]_vars

\* the rows followed where the outcome of each row matters: no images
CountImportRows ==
    UNION { [1..n -> { r \in ImportRow : r.images = 0 }] : n \in 0..MaxImportRows }

\* the body of an import request: the caller and the data rows
ImportBodies == [user : Users, rows : CountImportRows]

InitImport ==
    /\ periods = {}
    /\ nextPeriodId = 1
    /\ records = [k \in ProductIds \X PeriodIds |-> <<>>]
    /\ products = Catalog
    /\ nextProductId = Cardinality(Catalog) + 1
    /\ product_images = {}
    /\ nextImageId = 1
    /\ storage = {}
    /\ categories = {}
    /\ nextCategoryId = 1
    /\ product_categories = {}
    /\ csv \in ImportBodies
    /\ resp = NoResponse
    /\ reqs = [r \in 1..NumRequests |-> IdleReq]

\* the body is submitted (again)
ImportSubmitted == ImportProducts(csv.user, csv.rows)

NextImport ==
    \/ ImportSubmitted
    \/ Unauthenticated("importProducts")

SpecImport == InitImport /\ [][NextImport]_vars

----------------------------------------------------------------------------
(* Claims about product images *)

Dense(imgs, pid) ==
    { i.display_order : i \in ImagesOf(imgs, pid) } = 0..(ImageCount(imgs, pid) - 1)

\* C6: after any image mutation (add by upload, add by URL, delete, reorder)
\* the display orders of every product's images are exactly 0..n-1, without
\* gaps or duplicates.
C6_DisplayOrdersDense == \A pid \in ProductIds : Dense(product_images, pid)

\* C7: no product ever has more than 10 images, whichever operation inserted
\* them (add by upload, add by URL, product CSV import with an images column).
C7_AtMostTenImages ==
    \A p \in products : ImageCount(product_images, p.id) <= MaxImages

\* an add by the owner of a product that holds exactly 10 images answers a
\* validation error and leaves the image rows and the bucket as they were
AddStepRejectedAtLimit ==
    \A p \in products :
        ImageCount(product_images, p.id) = MaxImages =>
            /\ AddProductImage(p.owner_id, p.id) =>
                   /\ resp' = Response("addProductImage", ErrMaxImages)
                   /\ product_images' = product_images
                   /\ storage' = storage
            /\ \A url \in ImageUrls :
                   AddProductImageFromUrl(p.owner_id, p.id, url) =>
                       /\ resp'.err \in {ErrMaxImages, ErrInvalidUrl}
                       /\ product_images' = product_images
                       /\ storage' = storage

\* C8: adding an image (upload or URL) to a product that already has 10
\* images fails with a validation error before any file is stored or any row
\* is inserted; the product still has exactly the same 10 images afterwards.
C8_AddRejectedAtTen == [][AddStepRejectedAtLimit]_vars

C8_UploadRejectedAtTen ==
    /\ resp = Response("addProductImage", ErrMaxImages)
    /\ \E p \in products : ImageCount(product_images, p.id) = MaxImages

\* the rows deleteProductImage must leave for a product: the image gone, the
\* images after it one place lower, the images before it where they were
RowsAfterDelete(imgs, pid, image) ==
    { [i EXCEPT !.display_order = IF @ > image.display_order THEN @ - 1 ELSE @] :
        i \in ImagesOf(imgs, pid) \ {image} }

DeleteStepCompacts ==
    \A p \in products : \A image \in ImagesOf(product_images, p.id) :
        (Dense(product_images, p.id) /\ DeleteProductImage(p.owner_id, p.id, image.id)) =>
            /\ resp' = Response("deleteProductImage", "ok")
            /\ ImagesOf(product_images', p.id) = RowsAfterDelete(product_images, p.id, image)
            /\ Dense(product_images', p.id)

\* C9: deleteProductImage on a product whose display orders are exactly
\* 0..n-1 removes exactly that image and leaves the others at 0..n-2 in
\* their previous relative order.
C9_DeleteCompacts == [][DeleteStepCompacts]_vars

C9_MiddleImageDeleted ==
    /\ resp = Response("deleteProductImage", "ok")
    /\ ImagesOf(product_images, 1) = {NewImage(1, 1, 0), NewImage(3, 1, 1)}

\* one pair per image of the product, the orders a permutation of 0..n-1
IsPermutationRequest(imgs, pid, imageOrders) ==
    /\ Len(imageOrders) = ImageCount(imgs, pid)
    /\ { imageOrders[k].id : k \in DOMAIN imageOrders } = { i.id : i \in ImagesOf(imgs, pid) }
    /\ { imageOrders[k].display_order : k \in DOMAIN imageOrders } =
           0..(ImageCount(imgs, pid) - 1)

ReorderStepAppliesPermutation ==
    resp' = Response("reorderProductImages", "23505") =>
        \A p \in products : \A imageOrders \in ImageOrders :
            ~ /\ Dense(product_images, p.id)
              /\ IsPermutationRequest(product_images, p.id, imageOrders)
              /\ ReorderProductImages(p.owner_id, p.id, imageOrders)

\* C10: reorderProductImages called with one pair per image of the product,
\* the orders forming a permutation of 0..n-1, succeeds and leaves each image
\* at the requested order; here: such a request on a product whose orders are
\* 0..n-1 is never answered with a unique-index violation.
C10_PermutationReorderSucceeds == [][ReorderStepAppliesPermutation]_vars

----------------------------------------------------------------------------
(* Claims about the product import *)

RowKey(row) == ToLower(TrimName(row.name))

RowNamed(row) == TrimName(row.name) # ""

\* row k names a product that existed before the import or that an earlier
\* row of the batch created
RowIsDuplicate(rows, k, existing) ==
    /\ RowNamed(rows[k])
    /\ \/ RowKey(rows[k]) \in existing
       \/ \E j \in 1..(k - 1) :
             RowNamed(rows[j]) /\ rows[j].valid /\ RowKey(rows[j]) = RowKey(rows[k])

RowIsCreated(rows, k, existing) ==
    RowNamed(rows[k]) /\ rows[k].valid /\ ~RowIsDuplicate(rows, k, existing)

DuplicateRows(rows, existing) == { k \in DOMAIN rows : RowIsDuplicate(rows, k, existing) }

CreatedRows(rows, existing) == { k \in DOMAIN rows : RowIsCreated(rows, k, existing) }

ImportStepSkipsDuplicates ==
    (resp'.op = "importProducts" /\ resp'.err = "ok") =>
        LET existing == ExistingNames(products, csv.user)
            created == products' \ products
        IN /\ resp'.skipped = Cardinality(DuplicateRows(csv.rows, existing))
           /\ \A p \in created : ToLower(p.name) \notin existing
           /\ \A p, q \in created : ToLower(p.name) = ToLower(q.name) => p = q
           /\ \A k \in DuplicateRows(csv.rows, existing) :
                  Cardinality({ p \in ExistingNames(products', csv.user) :
                                  p = RowKey(csv.rows[k]) }) = 1

ImportStepCountsEveryRow ==
    (resp'.op = "importProducts" /\ resp'.err = "ok") =>
        LET existing == ExistingNames(products, csv.user)
            created == products' \ products
        IN /\ resp'.success + resp'.failed + resp'.skipped = Len(csv.rows)
           /\ resp'.total = Len(csv.rows)
           /\ resp'.success = Cardinality(CreatedRows(csv.rows, existing))
           /\ { p.name : p \in created } =
                  { TrimName(csv.rows[k].name) : k \in CreatedRows(csv.rows, existing) }
           /\ \A p \in created : p.owner_id = csv.user

\* C17: product CSV import processes every data row regardless of failures
\* of earlier rows: each data row is counted in exactly one of created,
\* failed or skipped, so created + failed + skipped equals the number of data
\* rows, and a failing row never prevents a later valid row from being
\* created.
C17_EveryRowCounted == [][ImportStepCountsEveryRow]_vars

C17_ValidRowAfterFailedRow ==
    /\ resp.op = "importProducts"
    /\ resp.err = "ok"
    /\ Len(csv.rows) = 2
    /\ ~csv.rows[1].valid
    /\ csv.rows[1].name = "Gizmo"
    /\ csv.rows[2].valid
    /\ csv.rows[2].name = "Gizmo"
    /\ resp.failed = 1
    /\ resp.success = 1

----------------------------------------------------------------------------
(* Two product imports in flight.  Each imports one data row with one      *)
(* category name; every statement the handler awaits is one step: the read *)
(* of the existing names, the product insert, the category lookup, the     *)
(* category insert, the re-read after a uniqueness violation, the link     *)
(* insert.  A finished request keeps its row's outcome.                    *)

ImportRaceNames == {"Gizmo", "WIDGET"}

ImportReq(pc, u, n, cat) ==
    [pc |-> pc, user |-> u, name |-> n, category |-> cat, inserted |-> 0,
     categoryId |-> 0, raced |-> FALSE, outcome |-> "none"]

\* the counters of a one-row import
ImportRaceResponse(outcome) ==
    [op |-> "importProducts", err |-> "ok",
     success |-> IF outcome = "success" THEN 1 ELSE 0,
     failed |-> IF outcome = "failed" THEN 1 ELSE 0,
     skipped |-> IF outcome = "skipped" THEN 1 ELSE 0,
     total |-> 1]

\* the request ends: results.success++, or the catch, then the response
ImportRaceFinish(r, req, outcome) ==
    /\ reqs' = [reqs EXCEPT ![r] = [req EXCEPT !.pc = "done", !.outcome = outcome]]
    /\ resp' = ImportRaceResponse(outcome)

\* select('id').eq('name', categoryName).eq('owner_id', user.id).maybeSingle()
\* (0: no row; ids are positive)
LookupCategory(cats, u, n) ==
    IF \E c \in cats : c.owner_id = u /\ c.name = n
      THEN (CHOOSE c \in cats : c.owner_id = u /\ c.name = n).id
      ELSE 0

RereadNone(cats, u, n) == 0

\* the same select with .single(), after the insert was refused with 23505
RereadCategory(cats, u, n) == LookupCategory(cats, u, n)

\* select('name').eq('owner_id', user.id), then the duplicate check of the row
ImportRaceBegin(r, u, n, cat) ==
    /\ reqs[r].pc = "idle"
    /\ IF ToLower(TrimName(n)) \in ExistingNames(products, u)
         THEN ImportRaceFinish(r, ImportReq("done", u, n, cat), "skipped")
         ELSE /\ reqs' = [reqs EXCEPT ![r] = ImportReq("insertProduct", u, n, cat)]
              /\ UNCHANGED resp
    /\ UNCHANGED <<periods, nextPeriodId, records, products, nextProductId, imageVars,
                   categoryVars, csv>>

\* from('products').insert({...}).select().single()
ImportRaceInsert(r) ==
    /\ reqs[r].pc = "insertProduct"
    /\ products' = products \cup
           {[id |-> nextProductId, owner_id |-> reqs[r].user, name |-> TrimName(reqs[r].name)]}
    /\ nextProductId' = nextProductId + 1
    /\ reqs' = [reqs EXCEPT ![r].pc = "lookupCategory", ![r].inserted = nextProductId]
    /\ UNCHANGED <<periods, nextPeriodId, records, imageVars, categoryVars, csv, resp>>

ImportRaceLookup(r) ==
    /\ reqs[r].pc = "lookupCategory"
    /\ LET id == LookupCategory(categories, reqs[r].user, reqs[r].category)
       IN reqs' = [reqs EXCEPT ![r].pc = IF id = 0 THEN "insertCategory" ELSE "insertLink",
                               ![r].categoryId = id]
    /\ UNCHANGED <<periods, nextPeriodId, records, products, nextProductId, imageVars,
                   categoryVars, csv, resp>>

\* from('categories').insert({ name, owner_id }).select().single()
ImportRaceInsertCategory(r) ==
    /\ reqs[r].pc = "insertCategory"
    /\ LET ins == InsertCategory(categories, nextCategoryId, reqs[r].user, reqs[r].category)
       IN /\ categories' = ins.rows
          /\ IF ins.err = "ok"
               THEN /\ nextCategoryId' = nextCategoryId + 1
                    /\ reqs' = [reqs EXCEPT ![r].pc = "insertLink",
                                            ![r].categoryId = nextCategoryId]
               ELSE /\ nextCategoryId' = nextCategoryId
                    /\ reqs' = [reqs EXCEPT ![r].pc = "rereadCategory", ![r].raced = TRUE]
    /\ UNCHANGED <<periods, nextPeriodId, records, products, nextProductId, imageVars,
                   product_categories, csv, resp>>

\* if (catError.code === '23505') { ... category = existingCat }; a row without
\* a category is counted as created and gets no link
ImportRaceReread(r) ==
    /\ reqs[r].pc = "rereadCategory"
    /\ LET id == RereadCategory(categories, reqs[r].user, reqs[r].category)
       IN IF id = 0
            THEN ImportRaceFinish(r, reqs[r], "success")
            ELSE /\ reqs' = [reqs EXCEPT ![r].pc = "insertLink", ![r].categoryId = id]
                 /\ UNCHANGED resp
    /\ UNCHANGED <<periods, nextPeriodId, records, products, nextProductId, imageVars,
                   categoryVars, csv>>

\* from('product_categories').insert({ product_id, category_id }); 23505 is
\* passed over, any other error fails the row
ImportRaceLink(r) ==
    /\ reqs[r].pc = "insertLink"
    /\ LET lk == InsertLinks(product_categories, products, categories, reqs[r].user,
                             reqs[r].inserted, <<reqs[r].categoryId>>)
       IN /\ product_categories' = lk.rows
          /\ ImportRaceFinish(r, reqs[r],
                              IF lk.err \in {"ok", "23505"} THEN "success" ELSE "failed")
    /\ UNCHANGED <<periods, nextPeriodId, records, products, nextProductId, imageVars,
                   categories, nextCategoryId, csv>>

ImportRaceSlots == {1, 2}

NextImportRace ==
    \/ \E r \in ImportRaceSlots, u \in Users, n \in ImportRaceNames, cat \in CategoryNames :
          ImportRaceBegin(r, u, n, cat)
    \/ \E r \in ImportRaceSlots : ImportRaceInsert(r)
    \/ \E r \in ImportRaceSlots : ImportRaceLookup(r)
    \/ \E r \in ImportRaceSlots : ImportRaceInsertCategory(r)
    \/ \E r \in ImportRaceSlots : ImportRaceReread(r)
    \/ \E r \in ImportRaceSlots : ImportRaceLink(r)

SpecImportRace == InitInventory /\ [][NextImportRace]_vars

----------------------------------------------------------------------------
(* The inventory-count import next to the calls that prepare its input: a  *)
(* period is opened, products are added to the catalog (products.name has  *)
(* no unique index), counts are recorded and a count file is imported.     *)

\* the name a second product is created with
CountedProductName == "WIDGET"

NextCountImport ==
    \/ \E u \in Users, n \in PeriodNames : CreatePeriod(u, n)
    \/ \E u \in Creators, priceOk \in BOOLEAN :
          /\ nextProductId \in ProductIds
          /\ CreateProduct(u, CountedProductName, priceOk, <<>>)
    \/ \E u \in Creators, perid \in PeriodIds, pid \in ProductIds, q \in Quantities :
          AddInventoryRecord(u, perid, pid, q)
    \/ \E u \in Users, rows \in CsvRows : ImportInventory(u, rows)
    \/ \E op \in {"createPeriod", "createProduct", "addInventoryRecord", "importInventory"} :
          Unauthenticated(op)

SpecCountImport == InitInventory /\ [][NextCountImport]_vars

----------------------------------------------------------------------------
(* The text of the current-inventory export and its import.  A text is a    *)
(* sequence of characters; the names of the model are spelled out by Chars. *)

Newline == "\n"

UpperAlphabet ==
    <<"A", "B", "C", "D", "E", "F", "G", "H", "I", "J", "K", "L", "M",
      "N", "O", "P", "Q", "R", "S", "T", "U", "V", "W", "X", "Y", "Z">>
LowerAlphabet ==
    <<"a", "b", "c", "d", "e", "f", "g", "h", "i", "j", "k", "l", "m",
      "n", "o", "p", "q", "r", "s", "t", "u", "v", "w", "x", "y", "z">>
DigitChars == <<"0", "1", "2", "3", "4", "5", "6", "7", "8", "9">>

\* the characters of the names, dates and quantities the model uses
Chars(s) ==
    CASE s = "Widget" -> <<"W", "i", "d", "g", "e", "t">>
      [] s = "WIDGET" -> <<"W", "I", "D", "G", "E", "T">>
      [] s = "Q1" -> <<"Q", "1">>
      [] s = "Q2" -> <<"Q", "2">>
      [] s = "Product Name Recount" ->
           <<"P", "r", "o", "d", "u", "c", "t", " ", "N", "a", "m", "e", " ",
             "R", "e", "c", "o", "u", "n", "t">>
      [] s = Today -> <<"2", "0", "2", "5", "-", "1", "0", "-", "2", "9">>
      [] OTHER -> <<>>

\* the name a field of the file spells: "" for the empty field, and a name
\* of no product for a spelling the model has no name for
NameOfChars(cs) ==
    IF cs = <<>> THEN ""
    ELSE IF \E p \in products : Chars(p.name) = cs
           THEN (CHOOSE p \in products : Chars(p.name) = cs).name
           ELSE "Nothing"

\* String.prototype.toLowerCase
LowerChar(c) ==
    IF \E i \in DOMAIN UpperAlphabet : UpperAlphabet[i] = c
      THEN LowerAlphabet[CHOOSE i \in DOMAIN UpperAlphabet : UpperAlphabet[i] = c]
      ELSE c

LowerChars(cs) == [i \in DOMAIN cs |-> LowerChar(cs[i])]

IsSpace(c) == c \in {" ", "\t", "\r", Newline}

\* String.prototype.trim
RECURSIVE TrimStart(_)
TrimStart(cs) ==
    IF cs # <<>> /\ IsSpace(Head(cs)) THEN TrimStart(Tail(cs)) ELSE cs

RECURSIVE TrimEnd(_)
TrimEnd(cs) ==
    IF cs # <<>> /\ IsSpace(cs[Len(cs)]) THEN TrimEnd(SubSeq(cs, 1, Len(cs) - 1)) ELSE cs

Trim(cs) == TrimEnd(TrimStart(cs))

\* String.prototype.includes
Includes(cs, token) ==
    \E i \in 0..(Len(cs) - Len(token)) : SubSeq(cs, i + 1, i + Len(token)) = token

\* `${record.quantity}` for a non-negative integer
RECURSIVE NumberToChars(_)
NumberToChars(n) ==
    IF n < 10 THEN <<DigitChars[n + 1]>>
    ELSE Append(NumberToChars(n \div 10), DigitChars[(n % 10) + 1])

IsDigit(c) == \E i \in DOMAIN DigitChars : DigitChars[i] = c

DigitValue(c) == (CHOOSE i \in DOMAIN DigitChars : DigitChars[i] = c) - 1

\* the value of the digits cs starts with, continuing from acc
RECURSIVE LeadingDigits(_, _)
LeadingDigits(cs, acc) ==
    IF cs # <<>> /\ IsDigit(Head(cs))
      THEN LeadingDigits(Tail(cs), 10 * acc + DigitValue(Head(cs)))
      ELSE acc

\* parseInt(quantityStr), with NaN and every negative number given as -1:
\* `isNaN(quantity) || quantity < 0` treats them alike
ParseInt(cs) ==
    LET t == TrimStart(cs)
    IN IF t # <<>> /\ IsDigit(Head(t)) THEN LeadingDigits(t, 0)
       ELSE IF Len(t) >= 2 /\ Head(t) = "+" /\ IsDigit(t[2]) THEN LeadingDigits(Tail(t), 0)
       ELSE IF Len(t) >= 2 /\ Head(t) = "-" /\ IsDigit(t[2]) /\ LeadingDigits(Tail(t), 0) = 0
              THEN 0
       ELSE 0 - 1

\* csvRows.join('\n')
RECURSIVE JoinLines(_)
JoinLines(lines) ==
    IF lines = <<>> THEN <<>>
    ELSE IF Len(lines) = 1 THEN lines[1]
    ELSE Head(lines) \o <<Newline>> \o JoinLines(Tail(lines))

\* csvText.split(/\r?\n/): the stretches between line feeds, without the
\* carriage return that ends a stretch
SplitLines(text) ==
    LET breaks == { i \in DOMAIN text : text[i] = Newline }
        n == Cardinality(breaks)
        BreakAt(k) ==
            IF k = 0 THEN 0
            ELSE IF k = n + 1 THEN Len(text) + 1
            ELSE CHOOSE i \in breaks : Cardinality({ j \in breaks : j <= i }) = k
        Stretch(k) == SubSeq(text, BreakAt(k - 1) + 1, BreakAt(k) - 1)
    IN [k \in 1..(n + 1) |->
          IF k <= n /\ Stretch(k) # <<>> /\ Stretch(k)[Len(Stretch(k))] = "\r"
            THEN SubSeq(Stretch(k), 1, Len(Stretch(k)) - 1)
            ELSE Stretch(k)]

\* .filter(line => line.trim())
RECURSIVE NonBlank(_)
NonBlank(lines) ==
    IF lines = <<>> THEN <<>>
    ELSE IF Trim(Head(lines)) = <<>> THEN NonBlank(Tail(lines))
    ELSE <<Head(lines)>> \o NonBlank(Tail(lines))

\* 'Product Name,Quantity,Price,Categories,Notes'
ExportHeader ==
    <<"P", "r", "o", "d", "u", "c", "t", " ", "N", "a", "m", "e", ",", "Q", "u", "a", "n", "t", "i", "t", "y", ",",
      "P", "r", "i", "c", "e", ",", "C", "a", "t", "e", "g", "o", "r", "i", "e", "s", ",", "N", "o", "t", "e", "s">>

\* `Period: ${period.name} (${period.start_date})`
ExportPreamble(period) ==
    <<"P", "e", "r", "i", "o", "d", ":", " ">> \o Chars(period.name) \o <<" ", "(">> \o Chars(Today) \o <<")">>

\* the price column: the model's products carry no price
PriceChars == <<"1">>

\* `"${escapedName}",${record.quantity},${product.price},"${categories}","${escapedNotes}"`
\* for a product without categories and a record without notes
ExportRow(name, quantity) ==
    QuoteField(Chars(name)) \o <<Comma>> \o NumberToChars(quantity) \o <<Comma>>
      \o PriceChars \o <<Comma>> \o QuoteField(<<>>) \o <<Comma>> \o QuoteField(<<>>)

\* the rows of the period the caller may read, .order('product_id')
RECURSIVE ExportRows(_, _, _)
ExportRows(u, perid, pids) ==
    IF pids = {} THEN <<>>
    ELSE LET pid == CHOOSE x \in pids : \A y \in pids : x <= y
             product == CHOOSE p \in products : p.id = pid
             rows == IF OwnsProduct(u, pid)
                       THEN [i \in DOMAIN records[<<pid, perid>>] |->
                               ExportRow(product.name, records[<<pid, perid>>][i])]
                       ELSE <<>>
         IN rows \o ExportRows(u, perid, pids \ {pid})

ExportText(u) ==
    LET period == CHOOSE p \in ActivePeriods(periods, u) : TRUE
    IN JoinLines(<<ExportPreamble(period), <<>>, ExportHeader>>
                   \o ExportRows(u, period.id, { p.id : p \in products }))

\* GET /inventory/export/current
ExportCurrent(u) ==
    /\ IF Cardinality(ActivePeriods(periods, u)) # 1
         THEN /\ resp' = Response("exportCurrent", "NotFound")
              /\ UNCHANGED csv
         ELSE /\ csv' = ExportText(u)
              /\ resp' = Response("exportCurrent", "ok")
    /\ UNCHANGED <<inventoryVars, products, nextProductId, imageVars, categoryVars>>

ErrNoHeader == "ValidationError: Could not find header row with \"Product Name\""
ErrMissingColumns == "ValidationError: Missing required columns"

ProductNameToken == <<"p", "r", "o", "d", "u", "c", "t", " ", "n", "a", "m", "e">>
QuantityToken == <<"q", "u", "a", "n", "t", "i", "t", "y">>

\* body.csv.trim().split(/\r?\n/).filter(line => line.trim())
CsvLines(text) == NonBlank(SplitLines(Trim(text)))

\* while (startIdx < lines.length && !lines[startIdx].toLowerCase().includes('product name'))
\* (counted from 1; Len(lines) + 1 when no line has the token)
RECURSIVE StartIdx(_, _)
StartIdx(lines, i) ==
    IF i <= Len(lines) /\ ~Includes(LowerChars(lines[i]), ProductNameToken)
      THEN StartIdx(lines, i + 1)
      ELSE i

\* parseCSVLine(headerLine).map(h => h.toLowerCase().trim())
CsvHeaders(line) ==
    LET fields == ParseCSVLine(line)
    IN [i \in DOMAIN fields |-> Trim(LowerChars(fields[i]))]

\* headers.indexOf(h), counted from 1 (0: absent)
IndexOf(headers, h) ==
    IF \E i \in DOMAIN headers : headers[i] = h
      THEN CHOOSE i \in DOMAIN headers : headers[i] = h /\ \A j \in 1..(i - 1) : headers[j] # h
      ELSE 0

\* the name and quantity of one data line; a line with fewer than two values,
\* or without a value in the name column, fails as a row without a name does
CsvDataRow(line, nameIdx, quantityIdx) ==
    LET values == ParseCSVLine(line)
    IN IF Len(values) < 2 \/ nameIdx > Len(values)
         THEN [name |-> "", quantity |-> 0 - 1]
         ELSE [name |-> NameOfChars(Trim(values[nameIdx])),
               quantity |-> IF quantityIdx > Len(values) THEN 0 - 1
                            ELSE ParseInt(Trim(values[quantityIdx]))]

\* lines.slice(startIdx + 1), each split into its columns
CsvDataRows(text) ==
    LET lines == CsvLines(text)
        startIdx == StartIdx(lines, 1)
        headers == CsvHeaders(lines[startIdx])
        dataLines == SubSeq(lines, startIdx + 1, Len(lines))
    IN [i \in DOMAIN dataLines |->
          CsvDataRow(dataLines[i], IndexOf(headers, ProductNameToken),
                     IndexOf(headers, QuantityToken))]

\* POST /inventory/import/inventory with the text as body.csv
ImportInventoryCsv(u, text) ==
    LET lines == CsvLines(text)
        startIdx == StartIdx(lines, 1)
        found == startIdx <= Len(lines)
        headers == CsvHeaders(lines[startIdx])
        missing == IndexOf(headers, ProductNameToken) = 0 \/ IndexOf(headers, QuantityToken) = 0
    IN IF Cardinality(ActivePeriods(periods, u)) = 1 /\ (~found \/ missing)
         THEN /\ resp' = Response("importInventory",
                                  IF ~found THEN ErrNoHeader ELSE ErrMissingColumns)
              /\ UNCHANGED <<inventoryVars, products, nextProductId, imageVars,
                             categoryVars, csv>>
         ELSE ImportInventory(u, IF found /\ ~missing THEN CsvDataRows(text) ELSE <<>>)

\* the names periods are opened with before an export
ExportPeriodNames == {"Q1", "Product Name Recount"}

\* an export is downloaded and the file is sent back
NextCountRoundTrip ==
    \/ \E u \in Creators, n \in ExportPeriodNames : CreatePeriod(u, n)
    \/ \E u \in Creators, priceOk \in BOOLEAN :
          /\ nextProductId \in ProductIds
          /\ CreateProduct(u, CountedProductName, priceOk, <<>>)
    \/ \E u \in Creators, perid \in PeriodIds, pid \in ProductIds, q \in Quantities :
          AddInventoryRecord(u, perid, pid, q)
    \/ \E u \in Creators : ExportCurrent(u)
    \/ \E u \in Creators : csv # <<>> /\ ImportInventoryCsv(u, csv)
    \/ \E op \in {"createPeriod", "createProduct", "addInventoryRecord", "exportCurrent",
                  "importInventory"} : Unauthenticated(op)

SpecCountRoundTrip == InitInventory /\ [][NextCountRoundTrip]_vars

----------------------------------------------------------------------------
(* Claims about the inventory-count import *)

\* row i of the file has a valid quantity and names product p of the caller,
\* ignoring case
RowMatches(u, rows, i, p) ==
    /\ rows[i].name # ""
    /\ rows[i].quantity >= 0
    /\ p.owner_id = u
    /\ ToLower(p.name) = ToLower(rows[i].name)

\* the last row of the file that matches p
LastMatch(u, rows, i, p) ==
    /\ RowMatches(u, rows, i, p)
    /\ \A j \in (i + 1)..Len(rows) : ~RowMatches(u, rows, j, p)

ImportStepWritesMatchedRows ==
    resp' = Response("importInventory", "ok") =>
      \A u \in Users, rows \in CsvRows :
        ImportInventory(u, rows) =>
          \A period \in ActivePeriods(periods, u), p \in products :
            /\ \A i \in 1..Len(rows) :
                 LastMatch(u, rows, i, p) =>
                   records'[<<p.id, period.id>>] = <<rows[i].quantity>>
            /\ (\A i \in 1..Len(rows) : ~RowMatches(u, rows, i, p)) =>
                   records'[<<p.id, period.id>>] = records[<<p.id, period.id>>]

\* C18: after a successful inventory-count import, for every row with a valid
\* quantity whose name matches one of the caller's products ignoring case, the
\* record of that product in the active period holds the quantity of the last
\* such row; a product no row matches keeps the record it had.
C18_MatchedRowsWritten == [][ImportStepWritesMatchedRows]_vars

RoundTripStep ==
    \A u \in Users :
      ( /\ Cardinality(ActivePeriods(periods, u)) = 1
        /\ csv = ExportText(u)
        /\ ImportInventoryCsv(u, csv) ) =>
          /\ resp' = Response("importInventory", "ok")
          /\ records' = records

\* C19: sending the text of the current-inventory export of the caller's
\* active period back to the inventory-count import, nothing having changed
\* since the export, succeeds and leaves every record of the period with the
\* quantity it had (no record is added, none is changed).
C19_ExportImportRoundTrip == [][RoundTripStep]_vars

----------------------------------------------------------------------------
(* Claims about concurrent product imports *)

OneCategoryPerName ==
    \A c, d \in categories : (c.owner_id = d.owner_id /\ c.name = d.name) => c.id = d.id

\* a finished request that created its product
Created(r) == reqs[r].pc = "done" /\ reqs[r].inserted # 0

LinkedToNamedCategory(r) ==
    \E c \in categories :
      /\ c.owner_id = reqs[r].user
      /\ c.name = reqs[r].category
      /\ reqs[r].categoryId = c.id
      /\ [product_id |-> reqs[r].inserted, category_id |-> c.id] \in product_categories

\* C20: when product imports of one owner run concurrently and resolve the
\* same new category name, one category row with that name exists; a request
\* whose category insert is refused with 23505 re-reads the row and uses it;
\* every request that created its product counts its row as created and has
\* linked the product to the category of that name, so both link to one id.
C20_RacingImportsShareCategory ==
    /\ OneCategoryPerName
    /\ \A r \in ImportRaceSlots :
         Created(r) => reqs[r].outcome = "success" /\ LinkedToNamedCategory(r)

C20_LoserUsesExistingRow ==
    /\ Created(1) /\ Created(2)
    /\ reqs[1].user = reqs[2].user
    /\ reqs[1].category = reqs[2].category
    /\ ~reqs[1].raced /\ reqs[2].raced
    /\ reqs[1].categoryId = reqs[2].categoryId
    /\ Cardinality(categories) = 1
    /\ Cardinality(product_categories) = 2

----------------------------------------------------------------------------
(* The answer a caller sees: lib/errors gives each AppError its status, the *)
(* ErrorHandler plugin maps the error codes of the store, and anything     *)
(* else is answered 500.                                                   *)

\* throw new ValidationError('Invalid product ID')
ErrInvalidProductId == "ValidationError: Invalid product ID"
\* throw new Error('Invalid product ID')
ErrPlainInvalidProductId == "Error: Invalid product ID"

ValidationErrors ==
    {ErrMaxImages, ErrInvalidUrl, ErrCategories, ErrEmptyCsv, ErrNoHeader, ErrMissingColumns,
     ErrInvalidProductId}

HttpStatus(err) ==
    CASE err = "ok" -> 200
      [] err = "Unauthorized" -> 401
      [] err = "NotFound" -> 404
      [] err \in ValidationErrors -> 400
      [] err = "PGRST116" -> 404
      [] err \in {"PGRST301", "42501"} -> 403
      [] err = "23503" -> 400
      [] err = "23505" -> 409
      [] OTHER -> 500

----------------------------------------------------------------------------
(* Claims about closing a period *)

OwnsPeriod(u, id) == \E p \in periods : p.id = id /\ p.owner_id = u

CloseStepAsDescribed ==
    resp'.op = "closePeriod" =>
      \A u \in Users, id \in PeriodIds :
        ClosePeriod(u, id) =>
          IF OwnsPeriod(u, id)
            THEN /\ resp'.err = "ok"
                 /\ \A p \in periods' :
                      p.id = id => p.status = "closed" /\ p.end_date = Today
                 /\ \A p \in periods : p.id # id => p \in periods'
            ELSE /\ HttpStatus(resp'.err) = 404
                 /\ periods' = periods

\* C21: closePeriod with an id that does not exist or belongs to another
\* owner is answered 404 and changes no period; with an id of the caller it
\* leaves that period closed with end_date set, and no other period changed.
C21_CloseOwnedOrNotFound == [][CloseStepAsDescribed]_vars

C21_OtherOwnersPeriodKept ==
    /\ resp = Response("closePeriod", "PGRST116")
    /\ \E p \in periods : p.status = "active"

----------------------------------------------------------------------------
(* Calls without a current user.  createSupabaseClient(undefined) sends no  *)
(* Authorization header of a user; the handlers that call auth.getUser()    *)
(* throw UnauthorizedError, the others go to the store, where every policy  *)
(* is TO authenticated: a query is answered with the rows the policies let  *)
(* through (none), or refused by the store (no privilege, or a token it     *)
(* does not accept).                                                        *)

\* getProductById: select(...).eq('id', id).single() under "Read own products"
GetProductById(u, id) ==
    /\ IF \E p \in VisibleProducts(products, u) : p.id = id
         THEN resp' = ProductResponse("getProductById", product_categories, id)
         ELSE resp' = Response("getProductById", "PGRST116")
    /\ UNCHANGED <<inventoryVars, products, nextProductId, imageVars, categoryVars, csv>>

\* deleteProduct: delete().eq("id", id) under "Delete own products"; links,
\* images and records of the product go with it (ON DELETE CASCADE)
DeleteProduct(u, id) ==
    /\ products' = { p \in products : ~(p.id = id /\ p.owner_id = u) }
    /\ LET gone == { p.id : p \in products \ products' }
       IN /\ product_categories' = { l \in product_categories : l.product_id \notin gone }
          /\ product_images' = { i \in product_images : i.product_id \notin gone }
          /\ records' = [k \in DOMAIN records |-> IF k[1] \in gone THEN <<>> ELSE records[k]]
    /\ resp' = Response("deleteProduct", "ok")
    /\ UNCHANGED <<periods, nextPeriodId, reqs, nextProductId, nextImageId, storage,
                   categories, nextCategoryId, csv>>

\* policy "Read own categories"
VisibleCategories(cats, u) == { c \in cats : c.owner_id = u }

GetAllCategories(u, pageParam, limitParam) ==
    /\ LET page == IF pageParam < 1 THEN 1 ELSE pageParam
           limit == IF limitParam < 1 THEN DefaultLimit
                    ELSE IF limitParam > MaxServiceLimit THEN MaxServiceLimit
                    ELSE limitParam
           from == (page - 1) * limit
           to == from + limit - 1
           total == Cardinality(VisibleCategories(categories, u))
           totalPages == Ceil(total, limit)
       IN resp' = [op |-> "getAllCategories", err |-> "ok",
                   data |-> RangeOf(AscendingById(VisibleCategories(categories, u)), from, to),
                   pagination |-> [page |-> page, limit |-> limit, total |-> total,
                                   totalPages |-> totalPages,
                                   hasNextPage |-> page < totalPages,
                                   hasPrevPage |-> page > 1]]
    /\ UNCHANGED <<inventoryVars, products, nextProductId, imageVars, categoryVars, csv>>

\* getCategoryById: select(...).eq("id", id).single()
GetCategoryById(u, id) ==
    /\ IF \E c \in VisibleCategories(categories, u) : c.id = id
         THEN resp' = [op |-> "getCategoryById", err |-> "ok", id |-> id]
         ELSE resp' = Response("getCategoryById", "PGRST116")
    /\ UNCHANGED <<inventoryVars, products, nextProductId, imageVars, categoryVars, csv>>

\* the handlers that start with auth.getUser()
GuardedOps ==
    {"createPeriod", "closePeriod", "addInventoryRecord", "deleteRecord", "importInventory",
     "exportCurrent", "createProduct", "updateProduct", "createCategory", "importProducts",
     "addProductImage", "addProductImageFromUrl", "deleteProductImage",
     "reorderProductImages"}

\* the handlers that do not
UnguardedOps ==
    {"getAllProducts", "getProductById", "deleteProduct", "getAllCategories",
     "getCategoryById", "deleteCategory"}

\* the error codes with which the store turns a request away
StoreRefusals == {"42501", "PGRST301"}

\* the store refuses the request and the handler rethrows the error
StoreRefuses(op, code) ==
    /\ resp' = Response(op, code)
    /\ UNCHANGED <<inventoryVars, products, nextProductId, imageVars, categoryVars, csv>>

\* a request of any route that carries no valid bearer token
AnonymousCall ==
    \/ \E op \in GuardedOps : Unauthenticated(op)
    \/ \E op \in UnguardedOps, code \in StoreRefusals : StoreRefuses(op, code)
    \/ \E page \in Pages, limit \in Limits : GetAllProducts(NoUser, page, limit)
    \/ \E id \in AllProductIds : GetProductById(NoUser, id)
    \/ \E id \in AllProductIds : DeleteProduct(NoUser, id)
    \/ \E page \in Pages, limit \in Limits : GetAllCategories(NoUser, page, limit)
    \/ \E id \in CategoryIds : GetCategoryById(NoUser, id)
    \/ \E id \in CategoryIds : DeleteCategory(NoUser, id)

NextAnonymous ==
    \/ \E u \in Users, n \in CategoryNames :
          /\ nextCategoryId <= MaxCategoryId
          /\ CreateCategory(u, n)
    \/ \E u \in Users, priceOk \in BOOLEAN :
          /\ nextProductId <= MaxProductId
          /\ CreateProduct(u, NewProductName, priceOk, <<>>)
    \/ \E u \in Users, id \in AllProductIds : GetProductById(u, id)
    \/ \E u \in Users, id \in AllProductIds : DeleteProduct(u, id)
    \/ \E u \in Users, page \in Pages, limit \in Limits : GetAllCategories(u, page, limit)
    \/ \E u \in Users, id \in CategoryIds : GetCategoryById(u, id)
    \/ AnonymousCall

SpecAnonymous == InitInventory /\ [][NextAnonymous]_vars

----------------------------------------------------------------------------
(* Claims about calls without a current user *)

AnonymousStepRefused ==
    AnonymousCall =>
      /\ HttpStatus(resp'.err) = 401
      /\ resp' = Response(resp'.op, "Unauthorized")
      /\ UNCHANGED <<inventoryVars, products, nextProductId, imageVars, categoryVars>>

\* C22: every route called without a bearer token, or with an invalid one, is
\* answered 401, returns no data and writes nothing, the read routes (list
\* and get-by-id of products and categories) as well as the write routes.
C22_AnonymousCallsAnswered401 == [][AnonymousStepRefused]_vars

----------------------------------------------------------------------------
(* The product routes with an id path parameter: models/product/routes.    *)
(* Each handler converts the parameter with Number(id), refuses NaN and    *)
(* values <= 0, and calls the service with the number.                     *)

\* the id segment of the path
PathIds == {"abc", "-1", "0", "1", "2"}

\* isNaN(Number(id))
PathIdIsNaN(s) == s = "abc"

\* Number(id) of a numeric segment
PathIdValue(s) ==
    CASE s = "-1" -> 0 - 1
      [] s = "0" -> 0
      [] s = "1" -> 1
      [] s = "2" -> 2

\* isNaN(productId) || productId <= 0
InvalidProductId(s) == PathIdIsNaN(s) \/ PathIdValue(s) <= 0

IdRouteOps ==
    {"getProductById", "updateProduct", "deleteProduct", "addProductImage",
     "addProductImageFromUrl", "reorderProductImages", "deleteProductImage"}

\* what the handler of the route throws for a refused id
RouteIdError(op) ==
    IF op = "deleteProduct" THEN ErrPlainInvalidProductId ELSE ErrInvalidProductId

ProductRoute(op, u, s) ==
    IF InvalidProductId(s)
      THEN /\ resp' = Response(op, RouteIdError(op))
           /\ UNCHANGED <<inventoryVars, products, nextProductId, imageVars, categoryVars,
                          csv>>
      ELSE LET id == PathIdValue(s)
           IN CASE op = "getProductById" -> GetProductById(u, id)
                [] op = "updateProduct" -> UpdateProduct(u, id, TRUE, FALSE, <<>>)
                [] op = "deleteProduct" -> DeleteProduct(u, id)
                [] op = "addProductImage" ->
                     /\ nextImageId < MaxImageId
                     /\ Cardinality(storage) < MaxFiles
                     /\ AddProductImage(u, id)
                [] op = "addProductImageFromUrl" ->
                     /\ nextImageId < MaxImageId
                     /\ \E url \in ImageUrls : AddProductImageFromUrl(u, id, url)
                [] op = "reorderProductImages" ->
                     \E imageOrders \in {<<>>} \cup { <<pair>> : pair \in ImageOrderPairs } :
                        ReorderProductImages(u, id, imageOrders)
                [] op = "deleteProductImage" ->
                     \E imageId \in ImageIds : DeleteProductImage(u, id, imageId)

NextRoutes ==
    \/ \E u \in Creators, priceOk \in BOOLEAN :
          /\ nextProductId \in ProductIds
          /\ CreateProduct(u, NewProductName, priceOk, <<>>)
    \/ \E op \in IdRouteOps, u \in Users, s \in PathIds : ProductRoute(op, u, s)

SpecRoutes == InitInventory /\ [][NextRoutes]_vars

----------------------------------------------------------------------------
(* Claims about the id path parameter *)

RouteStepRefusesBadId ==
    \A op \in IdRouteOps, u \in Users, s \in PathIds :
      (InvalidProductId(s) /\ ProductRoute(op, u, s)) =>
        /\ HttpStatus(resp'.err) = 400
        /\ resp'.err \in ValidationErrors
        /\ UNCHANGED <<inventoryVars, products, nextProductId, imageVars, categoryVars>>

\* C23: every product route with an id path parameter (GET, PUT and DELETE
\* /products/:id and the image routes) answers a non-numeric or non-positive
\* id with a Validation error, status 400, and calls the store for nothing.
C23_BadIdAnswered400 == [][RouteStepRefusesBadId]_vars

----------------------------------------------------------------------------
(* Image requests in flight.  Each statement the handler awaits is a step. *)
(* An add verifies the product and counts its images, uploads the file     *)
(* (addProductImage), reads the highest display_order and inserts the row. *)
(* A delete verifies the product and reads the image, removes the stored   *)
(* file and the row, selects the images after it and moves them down one   *)
(* update at a time.                                                       *)

HttpsUrl == "https://cdn.example/a.png"

AddKinds == {"addProductImage", "addProductImageFromUrl"}

ImageSlots == {1, 2}

ImageReq(pc, op, u, pid) ==
    [pc |-> pc, op |-> op, user |-> u, pid |-> pid, nextOrder |-> 0, imageId |-> 0,
     order |-> 0, remaining |-> <<>>]

\* the product check, the count check and, for an upload, the file
AddImageBegin(r, op, u, pid) ==
    /\ reqs[r].pc = "idle"
    /\ IF ~OwnsProduct(u, pid)
         THEN /\ resp' = Response(op, "PGRST116")
              /\ UNCHANGED <<reqs, storage>>
         ELSE IF ImageLimitReached(product_images, pid)
                THEN /\ resp' = Response(op, ErrMaxImages)
                     /\ UNCHANGED <<reqs, storage>>
                ELSE /\ reqs' = [reqs EXCEPT ![r] = ImageReq("readOrder", op, u, pid)]
                     /\ storage' = IF op = "addProductImage"
                                     THEN storage \cup {nextImageId} ELSE storage
                     /\ UNCHANGED resp
    /\ UNCHANGED <<periods, nextPeriodId, records, products, nextProductId, product_images,
                   nextImageId, categoryVars, csv>>

\* select('display_order').order('display_order', { ascending: false }).limit(1)
AddImageReadOrder(r) ==
    /\ reqs[r].pc = "readOrder"
    /\ reqs' = [reqs EXCEPT ![r].pc = "insertImage",
                            ![r].nextOrder = NextOrder(product_images, reqs[r].pid)]
    /\ UNCHANGED <<periods, nextPeriodId, records, products, nextProductId, imageVars,
                   categoryVars, csv, resp>>

\* insert({ product_id, image_url, display_order: nextOrder })
AddImageInsert(r) ==
    /\ reqs[r].pc = "insertImage"
    /\ LET ins == InsertImage(product_images, nextImageId, reqs[r].pid, HttpsUrl,
                              reqs[r].nextOrder)
       IN /\ product_images' = ins.rows
          /\ nextImageId' = IF ins.err = "ok" THEN nextImageId + 1 ELSE nextImageId
          /\ resp' = Response(reqs[r].op, ins.err)
    /\ reqs' = [reqs EXCEPT ![r] = IdleReq]
    /\ UNCHANGED <<periods, nextPeriodId, records, products, nextProductId, storage,
                   categoryVars, csv>>

\* the product check and select('image_url, display_order').eq('id', imageId)
DeleteImageBegin(r, u, pid, imageId) ==
    /\ reqs[r].pc = "idle"
    /\ IF ~OwnsProduct(u, pid) \/ (\A i \in ImagesOf(product_images, pid) : i.id # imageId)
         THEN /\ resp' = Response("deleteProductImage", "PGRST116")
              /\ UNCHANGED reqs
         ELSE LET image == CHOOSE i \in ImagesOf(product_images, pid) : i.id = imageId
              IN /\ reqs' = [reqs EXCEPT ![r] =
                               [ImageReq("deleteRow", "deleteProductImage", u, pid)
                                  EXCEPT !.imageId = imageId,
                                         !.order = image.display_order]]
                 /\ UNCHANGED resp
    /\ UNCHANGED <<periods, nextPeriodId, records, products, nextProductId, imageVars,
                   categoryVars, csv>>

\* storage.remove([filePath]), then delete().eq('id', imageId)
DeleteImageRow(r) ==
    /\ reqs[r].pc = "deleteRow"
    /\ storage' = storage \ {reqs[r].imageId}
    /\ product_images' = { i \in product_images : i.id # reqs[r].imageId }
    /\ reqs' = [reqs EXCEPT ![r].pc = "selectRemaining"]
    /\ UNCHANGED <<periods, nextPeriodId, records, products, nextProductId, nextImageId,
                   categoryVars, csv, resp>>

\* select('id, display_order').gt('display_order', image.display_order).order('display_order')
DeleteImageSelect(r) ==
    /\ reqs[r].pc = "selectRemaining"
    /\ reqs' = [reqs EXCEPT ![r].pc = "compact",
                            ![r].remaining =
                                AscendingByOrder({ i \in ImagesOf(product_images, reqs[r].pid) :
                                                     i.display_order > reqs[r].order })]
    /\ UNCHANGED <<periods, nextPeriodId, records, products, nextProductId, imageVars,
                   categoryVars, csv, resp>>

\* one turn of the loop over remainingImages, or the answer after the last
DeleteImageCompact(r) ==
    /\ reqs[r].pc = "compact"
    /\ IF reqs[r].remaining = <<>>
         THEN /\ resp' = Response("deleteProductImage", "ok")
              /\ reqs' = [reqs EXCEPT ![r] = IdleReq]
              /\ UNCHANGED product_images
         ELSE LET img == Head(reqs[r].remaining)
              IN /\ product_images' =
                       UpdateImageOrder(product_images, img.id, img.display_order - 1).rows
                 /\ reqs' = [reqs EXCEPT ![r].remaining = Tail(@)]
                 /\ UNCHANGED resp
    /\ UNCHANGED <<periods, nextPeriodId, records, products, nextProductId, nextImageId,
                   storage, categoryVars, csv>>

\* adds of several clients
NextImageAddRace ==
    \/ \E r \in ImageSlots, op \in AddKinds, u \in Users, pid \in ProductIds :
          /\ nextImageId <= MaxImageId
          /\ AddImageBegin(r, op, u, pid)
    \/ \E r \in ImageSlots : AddImageReadOrder(r)
    \/ \E r \in ImageSlots : nextImageId <= MaxImageId /\ AddImageInsert(r)

SpecImageAddRace == InitInventory /\ [][NextImageAddRace]_vars

----------------------------------------------------------------------------
(* Claims about concurrent image adds *)

SharedOrder(imgs) ==
    \E i, j \in imgs :
      i.id # j.id /\ i.product_id = j.product_id /\ i.display_order = j.display_order

\* request r is about to insert with a display_order that another add, which
\* read the same maximum, has inserted in the meantime
RacingInsert(r) ==
    /\ reqs[r].pc = "insertImage"
    /\ OrderTaken(product_images, reqs[r].pid, reqs[r].nextOrder, 0)
    /\ AddImageInsert(r)

RaceStepSharesOrder ==
    \A r \in ImageSlots : RacingInsert(r) => SharedOrder(product_images')

\* C24 as stated: the insert of an add that computed the display_order
\* another add has taken goes in, and two images of the product share a
\* display_order.
C24_RaceSharesOrder == [][RaceStepSharesOrder]_vars

RaceStepRefused ==
    \A r \in ImageSlots :
      RacingInsert(r) =>
        /\ resp' = Response(reqs[r].op, "23505")
        /\ product_images' = product_images

\* C24: two concurrent adds for a product can read the same maximum and
\* compute the same display_order; the insert of the second is then refused
\* by the unique index with 23505 and changes nothing, and at no time do two
\* images of a product share a display_order.
C24_RaceRefusedByIndex == [](~SharedOrder(product_images)) /\ [][RaceStepRefused]_vars

C24_SecondAddRefused ==
    /\ resp.err = "23505"
    /\ resp.op \in AddKinds
    /\ \E r \in ImageSlots : reqs[r].pc = "idle"
    /\ Cardinality(product_images) = 1
    /\ nextImageId = 2

----------------------------------------------------------------------------
(* One client adding images while another deletes them *)

AddSlot == 1

DeleteSlot == 2

NextImageDeleteRace ==
    \/ \E op \in AddKinds, u \in Creators, pid \in ProductIds :
          /\ nextImageId <= MaxImageId
          /\ AddImageBegin(AddSlot, op, u, pid)
    \/ AddImageReadOrder(AddSlot)
    \/ nextImageId <= MaxImageId /\ AddImageInsert(AddSlot)
    \/ \E u \in Creators, pid \in ProductIds, imageId \in ImageIds :
          DeleteImageBegin(DeleteSlot, u, pid, imageId)
    \/ DeleteImageRow(DeleteSlot)
    \/ DeleteImageSelect(DeleteSlot)
    \/ DeleteImageCompact(DeleteSlot)

SpecImageDeleteRace == InitInventory /\ [][NextImageDeleteRace]_vars

ImageRequestsDone == \A r \in ImageSlots : reqs[r].pc = "idle"

\* C30: whenever the adding and the deleting request have both completed,
\* the display_orders of every product's images are distinct and exactly
\* 0..m-1.
C30_DenseAfterDeleteAndAdd ==
    ImageRequestsDone => \A pid \in ProductIds : Dense(product_images, pid)

----------------------------------------------------------------------------
(* Claims about recording against a period *)

AddRecordStepAsDescribed ==
    resp'.op = "addInventoryRecord" =>
      \A u \in Users, perid \in PeriodIds, pid \in ProductIds, q \in Quantities :
        AddInventoryRecord(u, perid, pid, q) =>
          IF OwnsPeriod(u, perid)
            THEN OwnsProduct(u, pid) =>
                   /\ resp'.err = "ok"
                   /\ records'[<<pid, perid>>] # <<>>
                   /\ \A i \in DOMAIN records'[<<pid, perid>>] :
                        records'[<<pid, perid>>][i] = q
            ELSE /\ HttpStatus(resp'.err) = 404
                 /\ records' = records

----------------------------------------------------------------------------
(* Claims about the categories of imported rows *)

\* the data row that created product p: the first valid row of that name
CreatingRow(rows, p) ==
    rows[CHOOSE i \in DOMAIN rows :
           /\ TrimName(rows[i].name) = p.name /\ rows[i].valid
           /\ \A j \in DOMAIN rows :
                TrimName(rows[j].name) = p.name /\ rows[j].valid => i <= j]

\* product p is linked to a category of u named exactly n
LinkedByExactName(cats, links, u, p, n) ==
    \E c \in cats :
      /\ c.owner_id = u /\ c.name = n
      /\ [product_id |-> p.id, category_id |-> c.id] \in links

ImportStepLinksExactNames ==
    ImportSubmitted =>
      \A p \in products' \ products :
        LET row == CreatingRow(csv.rows, p)
        IN \A k \in DOMAIN row.categories :
             LinkedByExactName(categories', product_categories', csv.user, p,
                               row.categories[k])

\* C25: every category token of a row that product import creates is
\* resolved to a category of the caller whose name is exactly the token, and
\* the product is linked to it, also when the token differs only in letter
\* case from a token resolved earlier in the batch.
C25_TokensResolvedByExactName == [][ImportStepLinksExactNames]_vars

----------------------------------------------------------------------------
(* The row numbers of an import summary.  The bodies followed are made of  *)
(* the lines of an exported count: the "Period:" line, a blank line, the   *)
(* header, the row of a product, the row of a name that is no product and  *)
(* a row whose quantity is no number.                                      *)

MaxTextLines == 4

BlankLine == <<>>

UnknownNameRow == ExportRow("Q1", 1)

BadQuantityRow == QuoteField(Chars("Widget")) \o <<Comma, "x">>

SubmittedLines ==
    {ExportPreamble([name |-> "Q1"]), BlankLine, ExportHeader, ExportRow("Widget", 1),
     UnknownNameRow, BadQuantityRow}

SubmittedTexts ==
    { JoinLines(ls) : ls \in UNION { [1..n -> SubmittedLines] : n \in 1..MaxTextLines } }

\* a data row that gets a message: it fails, or its name is no product of
\* the caller
RowReported(u, row) ==
    \/ row.name = ""
    \/ row.quantity < 0
    \/ ~ \E p \in products : p.owner_id = u /\ ToLower(p.name) = ToLower(row.name)

\* `Row ${i + startIdx + 2}`, with i and startIdx counted from 0 in the code
\* and from 1 here
ReportedRow(startIdx, i) == (i - 1) + (startIdx - 1) + 2

\* results.errors of POST /inventory/import/inventory: for every reported
\* data line its position among the kept lines and the number of its message
ImportInventoryErrors(u, text) ==
    LET startIdx == StartIdx(CsvLines(text), 1)
        rows == CsvDataRows(text)
    IN { [kept |-> startIdx + i, row |-> ReportedRow(startIdx, i)] :
           i \in { j \in DOMAIN rows : RowReported(u, rows[j]) } }

InitImportText ==
    /\ periods = {}
    /\ nextPeriodId = 1
    /\ records = [k \in ProductIds \X PeriodIds |-> <<>>]
    /\ products = Catalog
    /\ nextProductId = Cardinality(Catalog) + 1
    /\ product_images = {}
    /\ nextImageId = 1
    /\ storage = {}
    /\ categories = {}
    /\ nextCategoryId = 1
    /\ product_categories = {}
    /\ csv \in SubmittedTexts
    /\ resp = NoResponse
    /\ reqs = [r \in 1..NumRequests |-> IdleReq]

NextImportText ==
    \/ \E u \in Creators : CreatePeriod(u, "Q1")
    \/ \E u \in Creators : ImportInventoryCsv(u, csv)
    \/ \E op \in {"createPeriod", "importInventory"} : Unauthenticated(op)

SpecImportText == InitImportText /\ [][NextImportText]_vars

----------------------------------------------------------------------------
(* Claims about the row numbers of an import summary *)

\* the 1-based number, among all lines of the submitted text, of its k-th
\* line that is not blank
SourceLine(text, k) ==
    LET all == SplitLines(text)
        kept == { j \in DOMAIN all : Trim(all[j]) # <<>> }
    IN CHOOSE j \in kept : Cardinality({ x \in kept : x <= j }) = k

ImportStepNumbersSourceLines ==
    \A u \in Creators :
      ImportInventoryCsv(u, csv) /\ resp'.err = "ok" =>
        \A m \in ImportInventoryErrors(u, csv) : m.row = SourceLine(csv, m.kept)

\* C26: every message of an import summary names the 1-based line number
\* that the row has in the submitted text, also when the text has blank
\* lines between its rows or preamble and blank lines before its header.
C26_MessagesNameSourceLines == [][ImportStepNumbersSourceLines]_vars

----------------------------------------------------------------------------
(* A product import in flight while categories are created and deleted *)

ImportingSlot == 1

NextImportLinkRace ==
    \/ \E u \in Creators, n \in CategoryNames :
          nextCategoryId <= MaxCategoryId /\ CreateCategory(u, n)
    \/ \E u \in Creators, id \in CategoryIds : DeleteCategory(u, id)
    \/ \E u \in Creators, n \in ImportRaceNames, cat \in CategoryNames :
          ImportRaceBegin(ImportingSlot, u, n, cat)
    \/ ImportRaceInsert(ImportingSlot)
    \/ ImportRaceLookup(ImportingSlot)
    \/ nextCategoryId <= MaxCategoryId + 1 /\ ImportRaceInsertCategory(ImportingSlot)
    \/ ImportRaceReread(ImportingSlot)
    \/ ImportRaceLink(ImportingSlot)

SpecImportLinkRace == InitInventory /\ [][NextImportLinkRace]_vars

----------------------------------------------------------------------------
(* Claims about the products an import leaves behind *)

\* the created count of the summary of a finished one-row import
CreatedCount(req) == IF req.outcome = "success" THEN 1 ELSE 0

\* C28: when a product import has answered, the number of product rows it
\* added to the store equals the created count of its summary; a row
\* counted as failed has left no product behind, also when it failed at the
\* category link, after its product row was inserted.
C28_FailedRowLeavesNoProduct ==
    reqs[ImportingSlot].pc = "done" =>
      /\ Cardinality(products \ Catalog) = CreatedCount(reqs[ImportingSlot])
      /\ reqs[ImportingSlot].outcome = "failed" =>
           ~ \E p \in products : p.id = reqs[ImportingSlot].inserted

----------------------------------------------------------------------------
(* Claims about a refused update *)

RefusedUpdateChangesNothing ==
    resp' = Response("updateProduct", ErrCategories) =>
      \A u \in Users, id \in 1..LastLinkedProductId, ids \in CategoryIdLists :
        UpdateProduct(u, id, TRUE, TRUE, ids) =>
          /\ products' = products
          /\ product_categories' = product_categories

\* C29: an updateProduct call with scalar fields and categoryIds that is
\* refused because a category id is missing or not the caller's leaves the
\* product unchanged: neither its fields nor its category links are
\* modified.
C29_RefusedUpdateChangesNothing == [][RefusedUpdateChangesNothing]_vars

====
